---- MODULE Spec2Model ----
(***************************************************************************)
(* Canonical schema graph pipeline of klaris-backend                       *)
(* (backend/routers/relationships.py): manifest, mapping_ids expansion,    *)
(* coverage repair, cross-entity anchoring, relationship candidates and    *)
(* classification, and the versioned store of global canonical schemas.    *)
(*                                                                         *)
(* Floats are scaled integers: a confidence c is stored as 10 * c and a    *)
(* candidate score s as 1200 * s.                                          *)
(***************************************************************************)
EXTENDS Integers, Sequences, FiniteSets, TLC

(***************************************************************************)
(* Bounds of the model                                                     *)
(***************************************************************************)
\* clustering response: entities, fields and mapping ids in all
MaxEntities == 1
MaxFields == 1
MaxIds == 2

\* input graph of the anchoring run: entities, fields and mapping rows in all
MaxGraphEntities == 2
MaxGraphFields == 2
MaxGraphMappings == 3

(***************************************************************************)
(* String helpers over the names the model draws from                      *)
(***************************************************************************)
\* str.strip()
Strip(s) ==
    CASE s = " Orders" -> "Orders"
      [] OTHER -> s

\* str.lower()
Lower(s) ==
    CASE s = "Orders" -> "orders"
      [] s = " Orders" -> " orders"
      [] s = "Customers" -> "customers"
      [] s = "Unassigned" -> "unassigned"
      [] s = "Customer_ID" -> "customer_id"
      [] s = "One_To_Many" -> "one_to_many"
      [] s = "High" -> "high"
      [] OTHER -> s

Min(S) == CHOOSE x \in S : \A y \in S : x <= y

\* list(f): the function on 1..n as the sequence of its values
list(f) == SubSeq(f, 1, Len(f))

Max(S) == CHOOSE x \in S : \A y \in S : x >= y

(***************************************************************************)
(* anchor_and_split_cross_entity_fields                                    *)
(*                                                                         *)
(* A graph is a sequence of entities [name, fields]; a field is            *)
(* [name, sem, pk, jk, mappings]; a mapping is                             *)
(* [connector_id, source_entity, source_field, confidence].                *)
(***************************************************************************)
\* positions <<i, j, k>> of all mapping rows of the graph
MapPos(ents) ==
    UNION {UNION {{<<i, j, k>> : k \in DOMAIN ents[i].fields[j].mappings}
                  : j \in DOMAIN ents[i].fields}
           : i \in DOMAIN ents}

MapAt(ents, p) == ents[p[1]].fields[p[2]].mappings[p[3]]

\* the source entities the mappings of the graph refer to
Sources(ents) == {MapAt(ents, p).source_entity : p \in MapPos(ents)}

\* src_counts[src][name]: mapping rows of src under entities named name
src_counts(ents, src, name) ==
    Cardinality({p \in MapPos(ents) :
                    /\ Strip(ents[p[1]].name) = name
                    /\ MapAt(ents, p).source_entity = src})

\* position at which name enters the dict src_counts[src]
FirstSeen(ents, src, name) ==
    Min({p[1] : p \in {q \in MapPos(ents) :
                          /\ Strip(ents[q[1]].name) = name
                          /\ MapAt(ents, q).source_entity = src}})

\* max(counts.items(), key=count)[0]: the first name, in insertion order,
\* whose count is the largest
PickFirstMax(ents, src) ==
    LET names == {Strip(ents[p[1]].name) :
                     p \in {q \in MapPos(ents) : MapAt(ents, q).source_entity = src}}
        best == Max({src_counts(ents, src, n) : n \in names})
        tops == {n \in names : src_counts(ents, src, n) = best}
    IN CHOOSE n \in tops :
          \A o \in tops : FirstSeen(ents, src, n) <= FirstSeen(ents, src, o)

src_anchor(ents) == [src \in Sources(ents) |-> PickFirstMax(ents, src)]

\* ent_by_name: the last entity of that (stripped) name wins
ent_by_name(ents, name) ==
    Max({i \in DOMAIN ents : Strip(ents[i].name) = name})

\* by_src keys of one field, in order of first occurrence
RECURSIVE SrcOrder(_)
SrcOrder(maps) ==
    IF maps = <<>> THEN <<>>
    ELSE LET r == SrcOrder(SubSeq(maps, 1, Len(maps) - 1))
             s == maps[Len(maps)].source_entity
         IN IF \E k \in DOMAIN r : r[k] = s THEN r ELSE Append(r, s)

\* a grouping that keeps only the first mapping of the source entity
by_src_first(maps, src) ==
    LET mine == SelectSeq(maps, LAMBDA m : m.source_entity = src)
    IN IF mine = <<>> THEN mine ELSE <<mine[1]>>

by_src(maps, src) == SelectSeq(maps, LAMBDA m : m.source_entity = src)

\* get_or_create_field that assigns the mappings of a reused field instead of
\* extending them
get_or_create_field_assign(fields, field_name, template_field, src_maps) ==
    LET hits == {j \in DOMAIN fields :
                    Lower(Strip(fields[j].name)) = Lower(Strip(field_name))}
    IN IF hits # {}
       THEN [fields EXCEPT ![Min(hits)].mappings = src_maps]
       ELSE Append(fields, [name |-> field_name,
                            sem |-> template_field.sem,
                            pk |-> template_field.pk,
                            jk |-> template_field.jk,
                            mappings |-> src_maps])

\* get_or_create_field followed by the extend of its mappings
get_or_create_field(fields, field_name, template_field, src_maps) ==
    LET hits == {j \in DOMAIN fields :
                    Lower(Strip(fields[j].name)) = Lower(Strip(field_name))}
    IN IF hits # {}
       THEN [fields EXCEPT ![Min(hits)].mappings = @ \o src_maps]
       ELSE Append(fields, [name |-> field_name,
                            sem |-> template_field.sem,
                            pk |-> template_field.pk,
                            jk |-> template_field.jk,
                            mappings |-> src_maps])

\* the loop over by_src.items() of one field f of the entity at position i
RECURSIVE SplitField(_, _, _, _, _, _)
SplitField(ents, i, f, srcs, stay, anchors) ==
    IF srcs = <<>> THEN [ents |-> ents, stay |-> stay]
    ELSE LET src == Head(srcs)
             src_maps == by_src(f.mappings, src)
             anchor_name == anchors[src]
         IN IF anchor_name = "" \/ anchor_name = Strip(ents[i].name)
            THEN SplitField(ents, i, f, Tail(srcs), stay \o src_maps, anchors)
            ELSE LET t == ent_by_name(ents, anchor_name)
                     moved == [ents EXCEPT ![t].fields =
                                  get_or_create_field(@, f.name, f, src_maps)]
                 IN SplitField(moved, i, f, Tail(srcs), stay, anchors)

\* the loop over the fields of the entity at position i
RECURSIVE SplitEntity(_, _, _, _, _)
SplitEntity(ents, i, todo, new_fields, anchors) ==
    IF todo = <<>> THEN [ents EXCEPT ![i].fields = new_fields]
    ELSE LET f == Head(todo)
             r == SplitField(ents, i, f, SrcOrder(f.mappings), <<>>, anchors)
         IN SplitEntity(r.ents, i, Tail(todo),
                        IF r.stay # <<>>
                        THEN Append(new_fields, [f EXCEPT !.mappings = r.stay])
                        ELSE new_fields,
                        anchors)

\* the loop over list(entities)
RECURSIVE SplitAll(_, _, _)
SplitAll(ents, i, anchors) ==
    IF i > Len(ents) THEN ents
    ELSE SplitAll(SplitEntity(ents, i, ents[i].fields, <<>>, anchors), i + 1, anchors)

anchor_and_split_cross_entity_fields(ents) ==
    IF ents = <<>> THEN ents
    ELSE SelectSeq(SplitAll(ents, 1, src_anchor(ents)),
                   LAMBDA e : e.fields # <<>>)

(***************************************************************************)
(* State                                                                   *)
(***************************************************************************)
VARIABLES
    bpc,             \* position of the build request (create_dataset_review)
    input_entities,  \* normalized entities of the selected connectors' schemas
    options,         \* options.confidence_threshold of the request, in tenths
    manifest,        \* MANIFEST with mapping IDs
    parsed,          \* clustering response: entities, fields carry mapping_ids
    result,          \* result["entities"]
    relationships,   \* result["relationships"]
    covered_ids,     \* ids resolved by the expansion
    flat_candidates, \* capped candidate list sent to the classifier
    rel_items,       \* classifier response rows
    review,          \* the DatasetReview record of the request
    apc,             \* position of the anchoring run
    g,               \* its input graph
    once,            \* anchor(g)
    twice,           \* anchor(anchor(g))
    db,              \* rows of global_canonical_schemas
    spc,             \* position of each save request (save_global_canonical)
    sreq,            \* body and tenant of each save request
    latest,          \* the row each save request read as latest
    sout,            \* response of each save request
    lpc,             \* position of the review_schema call
    provider,        \* "anthropic" or "openai"
    retry_max,       \* self.retry_max
    backoff_base,    \* self.backoff_base, in tenths of a second
    attempt,         \* loop variable of review_schema
    attempts_made,   \* passes through the loop body so far
    slept,           \* arguments of time.sleep so far, in tenths of a second
    errors,          \* exceptions caught by the except branch so far
    llm_text,        \* response text handed to _best_effort_parse last
    llm_out,         \* what review_schema returned
    raw_schema,      \* s.raw_schema of the selected connector's latest schema
    thread_histories,   \* _THREAD_HISTORIES of agents/chat_graph.py
    session_max_turns,  \* _SESSION_MAX_TURNS
    tcall,           \* the last call of a thread or history helper and what it returned
    cpc,             \* position of the run_chat_agent_stream generator
    stream_end,      \* how its loop over the underlying events was left
    events,          \* names of the server-sent events it has yielded
    vpc,             \* position of the validate request (validate_canonical)
    vgraph,          \* body.canonical_graph
    vout             \* its response

buildVars == <<bpc, input_entities, options, manifest, parsed, result, relationships,
               covered_ids, flat_candidates, rel_items, review>>

anchorVars == <<apc, g, once, twice>>

saveVars == <<db, spc, sreq, latest, sout>>

llmVars == <<lpc, provider, retry_max, backoff_base, attempt, attempts_made, slept,
             errors, llm_text, llm_out>>

rawVars == <<raw_schema>>

chatVars == <<thread_histories, session_max_turns, tcall>>

streamVars == <<cpc, stream_end, events>>

valVars == <<vpc, vgraph, vout>>

vars == <<bpc, input_entities, options, manifest, parsed, result, relationships,
          covered_ids, flat_candidates, rel_items, review, apc, g, once, twice,
          db, spc, sreq, latest, sout, lpc, provider, retry_max, backoff_base,
          attempt, attempts_made, slept, errors, llm_text, llm_out, raw_schema,
          thread_histories, session_max_turns, tcall, cpc, stream_end, events,
          vpc, vgraph, vout>>

(***************************************************************************)
(* Inputs                                                                  *)
(***************************************************************************)
\* input_entities of the requests the model draws from: the two-table schema
\* of one connector, the same table name under two connectors, and schemas
\* without any field
InputChoices ==
    { << [connector_id |-> "pg1", entity_name |-> "orders",
          fields |-> <<"order_id", "customer_id">>],
         [connector_id |-> "pg1", entity_name |-> "customers",
          fields |-> <<"customer_id">>] >>,
      << [connector_id |-> "pg1", entity_name |-> "orders", fields |-> <<"order_id">>],
         [connector_id |-> "pg2", entity_name |-> "orders", fields |-> <<"order_id">>] >>,
      << [connector_id |-> "pg1", entity_name |-> "orders", fields |-> <<>>] >> }

\* names a clustering response gives its entities
EntityNames == {"Orders", " Orders", "Customers", "Unassigned"}

\* fields a clustering response emits (without their mapping_ids)
FieldTemplates ==
    { [name |-> "order_id", sem |-> "identifier", pk |-> TRUE, jk |-> FALSE],
      [name |-> "customer_id", sem |-> "identifier", pk |-> FALSE, jk |-> TRUE],
      [name |-> "Customer_ID", sem |-> "unknown", pk |-> TRUE, jk |-> FALSE] }

\* a mapping_ids element as the response carries it: a JSON number (n is out
\* of range) or something int() rejects
RawIds(n) ==
    {[t |-> "int", v |-> k] : k \in 0..n} \cup {[t |-> "bad", v |-> 0]}

\* int(mid_val); -1 stands for the exception
int(raw) == IF raw.t = "bad" THEN -1 ELSE raw.v

(***************************************************************************)
(* Manifest builder                                                        *)
(***************************************************************************)
RECURSIVE BuildManifest(_, _)
BuildManifest(items, mid) ==
    IF items = <<>> THEN <<>>
    ELSE LET item == Head(items)
             own == [k \in DOMAIN item.fields |->
                        [mid |-> mid + k - 1,
                         connector_id |-> item.connector_id,
                         source_entity |-> item.entity_name,
                         source_field |-> item.fields[k]]]
         IN own \o BuildManifest(Tail(items), mid + Len(item.fields))

\* mid_lookup.get(mid)
mid_lookup(mf, mid) == {k \in DOMAIN mf : mf[k].mid = mid}

Triple(m) == <<m.connector_id, m.source_entity, m.source_field>>

(***************************************************************************)
(* Expansion of mapping_ids and coverage repair                            *)
(***************************************************************************)
\* the mappings of one field: ids that int() rejects or that mid_lookup does
\* not know are skipped
RECURSIVE ExpandIds(_, _)
ExpandIds(mf, ids) ==
    IF ids = <<>> THEN <<>>
    ELSE LET hit == mid_lookup(mf, int(Head(ids)))
         IN (IF hit = {} THEN <<>>
             ELSE LET t == mf[CHOOSE k \in hit : TRUE]
                  IN << [connector_id |-> t.connector_id,
                         source_entity |-> t.source_entity,
                         source_field |-> t.source_field,
                         confidence |-> 10] >>)
            \o ExpandIds(mf, Tail(ids))

ExpandEntities(mf, ents) ==
    [i \in DOMAIN ents |->
        [name |-> ents[i].name,
         fields |-> [j \in DOMAIN ents[i].fields |->
                        LET f == ents[i].fields[j]
                        IN [name |-> f.name, sem |-> f.sem, pk |-> f.pk, jk |-> f.jk,
                            mappings |-> ExpandIds(mf, f.mapping_ids)]]]]

CoveredIds(mf, ents) ==
    {mid \in {int(ents[i].fields[j].mapping_ids[k]) :
                 <<i, j, k>> \in UNION {UNION {{<<a, b, c>> :
                                   c \in DOMAIN ents[a].fields[b].mapping_ids}
                                   : b \in DOMAIN ents[a].fields}
                                   : a \in DOMAIN ents}}
        : mid_lookup(mf, mid) # {}}

\* f"{src} (raw)"
RawName(src) ==
    CASE src = "orders" -> "orders (raw)"
      [] src = "customers" -> "customers (raw)"
      [] OTHER -> " (raw)"

\* missing_ids_initial, in mid_lookup order
missing_ids_initial(mf, covered) == SelectSeq(mf, LAMBDA m : m.mid \notin covered)

\* fallback_fields that keeps the group of the first source entity only
fallback_fields_first(missing) ==
    LET srcs == SubSeq(SrcOrder(missing), 1, 1)
    IN [k \in DOMAIN srcs |->
           [name |-> RawName(srcs[k]), sem |-> "unknown", pk |-> FALSE, jk |-> FALSE,
            mappings |-> LET mids == by_src(missing, srcs[k])
                         IN [n \in DOMAIN mids |->
                                [connector_id |-> mids[n].connector_id,
                                 source_entity |-> mids[n].source_entity,
                                 source_field |-> mids[n].source_field,
                                 confidence |-> 5]]]]

fallback_fields(missing) ==
    LET srcs == SrcOrder(missing)
    IN [k \in DOMAIN srcs |->
           [name |-> RawName(srcs[k]), sem |-> "unknown", pk |-> FALSE, jk |-> FALSE,
            mappings |-> LET mids == by_src(missing, srcs[k])
                         IN [n \in DOMAIN mids |->
                                [connector_id |-> mids[n].connector_id,
                                 source_entity |-> mids[n].source_entity,
                                 source_field |-> mids[n].source_field,
                                 confidence |-> 5]]]]

RepairCoverage(mf, ents, covered) ==
    LET missing == missing_ids_initial(mf, covered)
    IN IF missing = <<>> THEN ents
       ELSE Append(ents, [name |-> "Unassigned", fields |-> fallback_fields(missing)])

(***************************************************************************)
(* Relationship candidates (second pass, no LLM)                           *)
(***************************************************************************)
MAX_PER_PAIR == 5
MAX_GLOBAL == 300

\* norm(s): strip, "-" to "_", runs of other characters to one space, lower
norm(s) ==
    CASE s = "Customer_ID" -> "customer_id"
      [] s = "customer-id" -> "customer_id"
      [] s = "orders (raw)" -> "orders raw "
      [] s = "customers (raw)" -> "customers raw "
      [] s = " (raw)" -> "raw "
      [] OTHER -> s

\* set(toks(s))
toks(s) ==
    CASE s = "order_id" -> {"order", "id"}
      [] s = "customer_id" -> {"customer", "id"}
      [] s = "Customer_ID" -> {"customer", "id"}
      [] s = "customer-id" -> {"customer", "id"}
      [] s = "orders (raw)" -> {"orders", "raw"}
      [] s = "customers (raw)" -> {"customers", "raw"}
      [] s = " (raw)" -> {"raw"}
      [] s = "" -> {}
      [] OTHER -> {s}

\* re.search(r"(?:^|[_\s])id$", norm(fname)) or fname.lower().endswith("_id")
EndsWithId(fname) == norm(fname) \in {"order_id", "customer_id", "id"}

IdSem == {"identifier", "id", "key"}

RECURSIVE canon_fields(_)
canon_fields(ents) ==
    IF ents = <<>> THEN <<>>
    ELSE LET e == Head(ents)
         IN [j \in DOMAIN e.fields |->
                [entity |-> Strip(e.name),
                 field |-> Strip(e.fields[j].name),
                 pk |-> e.fields[j].pk,
                 jk |-> e.fields[j].jk,
                 sem |-> Lower(e.fields[j].sem),
                 tokens |-> toks(e.fields[j].name)]]
            \o canon_fields(Tail(ents))

is_id_like(cf) == cf.sem \in IdSem \/ EndsWithId(cf.field)

fields_for_join(ents) ==
    SelectSeq(canon_fields(ents), LAMBDA cf : cf.pk \/ cf.jk \/ is_id_like(cf))

\* 1200 * jaccard(a, b); token sets of the model have at most 2 elements, so
\* the union has 1..4 and the quotient is exact
jaccard(a, b) ==
    IF a = {} /\ b = {} THEN 0
    ELSE (1200 * Cardinality(a \cap b)) \div Cardinality(a \cup b)

\* a score that does not look at the entities of the two fields
score_pair_any_entity(a, b) ==
    LET name_eq == IF norm(a.field) = norm(b.field) THEN 1200 ELSE 0
        j == jaccard(a.tokens, b.tokens)
        pkjk == IF (a.pk /\ b.jk) \/ (b.pk /\ a.jk) THEN 1 ELSE 0
        both_id == IF a.sem \in IdSem /\ b.sem \in IdSem THEN 1 ELSE 0
    IN (3 * (IF name_eq >= j THEN name_eq ELSE j)) \div 4 + 240 * pkjk + 60 * both_id

\* 1200 * score_pair(a, b)
score_pair(a, b) ==
    IF a.entity = b.entity THEN 0
    ELSE LET name_eq == IF norm(a.field) = norm(b.field) THEN 1200 ELSE 0
             j == jaccard(a.tokens, b.tokens)
             pkjk == IF (a.pk /\ b.jk) \/ (b.pk /\ a.jk) THEN 1 ELSE 0
             both_id == IF a.sem \in IdSem /\ b.sem \in IdSem THEN 1 ELSE 0
         IN (3 * (IF name_eq >= j THEN name_eq ELSE j)) \div 4
                + 240 * pkjk + 60 * both_id

\* 1200 * 0.7
MinScore == 840

\* the candidate of the pair (a, b), from/to oriented primary key first
Candidate(a, b, pair_id) ==
    LET flip == ~(a.pk /\ b.jk) /\ (b.pk /\ a.jk)
        f == IF flip THEN b ELSE a
        t == IF flip THEN a ELSE b
    IN [pair_id |-> pair_id,
        from_entity |-> f.entity, from_field |-> f.field,
        to_entity |-> t.entity, to_field |-> t.field,
        score |-> score_pair(a, b),
        predicted_type |-> IF (a.pk /\ b.jk) \/ (b.pk /\ a.jk)
                           THEN "one_to_many" ELSE "unknown",
        key |-> {a.entity, b.entity}]

\* the pairs (i, j), i < j, in the order of the two nested loops: the pair
\* (i, j) is the Rank(n, i, j)-th
Rank(n, i, j) == (i - 1) * n - ((i * (i - 1)) \div 2) + (j - i)

PairsFrom(n) ==
    list([k \in 1..((n * (n - 1)) \div 2) |->
            CHOOSE pr \in (1..n) \X (1..n) : pr[1] < pr[2] /\ Rank(n, pr[1], pr[2]) = k])

\* every admitted candidate, in generation order; pair_id counts the
\* admitted ones from pair_id on
Admit(ffj, pairs, pair_id) ==
    LET sel == SelectSeq(pairs, LAMBDA pr : score_pair(ffj[pr[1]], ffj[pr[2]]) >= MinScore)
    IN list([k \in DOMAIN sel |->
                Candidate(ffj[sel[k][1]], ffj[sel[k][2]], pair_id + k - 1)])

\* sorted(lst, key=score, reverse=True): stable, equal scores keep their
\* order; pos[k] is the place of lst[k] in the result
SortByScore(lst) ==
    LET pos == list([k \in DOMAIN lst |->
                  Cardinality({l \in DOMAIN lst : lst[l].score > lst[k].score})
                  + Cardinality({l \in DOMAIN lst : l < k /\ lst[l].score = lst[k].score})
                  + 1])
        inv == list([p \in DOMAIN lst |-> CHOOSE k \in DOMAIN lst : pos[k] = p])
    IN list([p \in DOMAIN lst |-> lst[inv[p]]])

\* a slice that keeps one element too many
Take_one_more(lst, n) == SubSeq(lst, 1, IF Len(lst) < n + 1 THEN Len(lst) ELSE n + 1)

Take(lst, n) == SubSeq(lst, 1, IF Len(lst) < n THEN Len(lst) ELSE n)

\* keys of per_pair_bucket in insertion order
BucketKeys(cands) ==
    LET first == SelectSeq([k \in DOMAIN cands |-> k],
                           LAMBDA k : \A l \in 1..(k - 1) : cands[l].key # cands[k].key)
    IN list([p \in DOMAIN first |-> cands[first[p]].key])

RECURSIVE CapPerPair(_, _)
CapPerPair(cands, keys) ==
    IF keys = <<>> THEN <<>>
    ELSE Take(SortByScore(SelectSeq(cands, LAMBDA c : c.key = Head(keys))), MAX_PER_PAIR)
            \o CapPerPair(cands, Tail(keys))

FlatCandidates(ents) ==
    LET ffj == fields_for_join(ents)
        cands == Admit(ffj, PairsFrom(Len(ffj)), 0)
    IN Take(SortByScore(CapPerPair(cands, BucketKeys(cands))), MAX_GLOBAL)

(***************************************************************************)
(* Relationship classifier (LLM pass #2) post-processing                   *)
(***************************************************************************)
\* options.confidence_threshold when the request leaves it null
NoThreshold == -1

\* a threshold that ignores the request's options
rel_conf_threshold_ignored(threshold) == 6

\* float(options.confidence_threshold or 0.6), in tenths
rel_conf_threshold(threshold) ==
    IF threshold = NoThreshold \/ threshold = 0 THEN 6 ELSE threshold

\* cand_by_id that answers an unknown pair_id with the first candidate
cand_by_id_default(cands, pid) ==
    IF {k \in DOMAIN cands : cands[k].pair_id = pid} = {}
    THEN {k \in DOMAIN cands : k = 1}
    ELSE {k \in DOMAIN cands : cands[k].pair_id = pid}

\* cand_by_id.get(pid)
cand_by_id(cands, pid) == {k \in DOMAIN cands : cands[k].pair_id = pid}

\* a dedup key that keeps the case of the names
RelKey_cased(c) == <<c.from_entity, c.from_field, c.to_entity, c.to_field>>

RelKey(c) ==
    <<Lower(c.from_entity), Lower(c.from_field), Lower(c.to_entity), Lower(c.to_field)>>

\* the loop over rel_items; a row is [accept, pair_id, type, confidence]
RECURSIVE Classify(_, _, _, _, _)
Classify(cands, items, threshold, dedup, out) ==
    IF items = <<>> THEN out
    ELSE LET it == Head(items)
             hit == cand_by_id(cands, int(it.pair_id))
         IN IF ~it.accept \/ hit = {}
            THEN Classify(cands, Tail(items), threshold, dedup, out)
            ELSE LET c == cands[CHOOSE k \in hit : TRUE]
                     rel_type == Lower(IF it.type # "" THEN it.type ELSE c.predicted_type)
                 IN IF it.confidence < threshold \/ RelKey(c) \in dedup
                    THEN Classify(cands, Tail(items), threshold, dedup, out)
                    ELSE Classify(cands, Tail(items), threshold,
                                  dedup \cup {RelKey(c)},
                                  Append(out, [type |-> rel_type,
                                               from_entity |-> c.from_entity,
                                               to_entity |-> c.to_entity,
                                               join_on |-> <<[from_field |-> c.from_field,
                                                              to_field |-> c.to_field]>>,
                                               confidence |-> it.confidence]))

(***************************************************************************)
(* Build request: create_dataset_review                                    *)
(***************************************************************************)
\* suggestions=None
None == [none |-> TRUE]

NoReview == [status |-> "none", suggestions |-> None, error_message |-> FALSE]

TotalFields(ents) ==
    Cardinality(UNION {{<<i, j>> : j \in DOMAIN ents[i].fields} : i \in DOMAIN ents})

TotalIds(ents) ==
    Cardinality(UNION {UNION {{<<i, j, k>> : k \in DOMAIN ents[i].fields[j].mapping_ids}
                              : j \in DOMAIN ents[i].fields}
                       : i \in DOMAIN ents})

\* manifest built; an empty manifest is answered 400 before any review exists
StartBuild ==
    /\ bpc = "start"
    /\ LET mf == BuildManifest(input_entities, 0)
       IN /\ manifest' = mf
          /\ IF Len(mf) = 0
             THEN /\ bpc' = "rejected"
                  /\ review' = review
             ELSE /\ bpc' = "llm1"
                  /\ review' = [status |-> "pending", suggestions |-> None,
                                error_message |-> FALSE]
    /\ UNCHANGED <<input_entities, options, parsed, result, relationships, covered_ids,
                   flat_candidates, rel_items>>
    /\ UNCHANGED <<anchorVars, saveVars, llmVars, rawVars, chatVars, streamVars, valVars>>

\* the clustering response, entity by entity
LLMEntity ==
    /\ bpc = "llm1"
    /\ Len(parsed) < MaxEntities
    /\ \E n \in EntityNames :
          parsed' = Append(parsed, [name |-> n, fields |-> <<>>])
    /\ UNCHANGED <<bpc, input_entities, options, manifest, result, relationships,
                   covered_ids, flat_candidates, rel_items, review>>
    /\ UNCHANGED <<anchorVars, saveVars, llmVars, rawVars, chatVars, streamVars, valVars>>

LLMField ==
    /\ bpc = "llm1"
    /\ parsed # <<>>
    /\ TotalFields(parsed) < MaxFields
    /\ \E t \in FieldTemplates :
          parsed' = [parsed EXCEPT ![Len(parsed)].fields =
                        Append(@, [name |-> t.name, sem |-> t.sem, pk |-> t.pk,
                                   jk |-> t.jk, mapping_ids |-> <<>>])]
    /\ UNCHANGED <<bpc, input_entities, options, manifest, result, relationships,
                   covered_ids, flat_candidates, rel_items, review>>
    /\ UNCHANGED <<anchorVars, saveVars, llmVars, rawVars, chatVars, streamVars, valVars>>

LLMId ==
    /\ bpc = "llm1"
    /\ parsed # <<>>
    /\ parsed[Len(parsed)].fields # <<>>
    /\ TotalIds(parsed) < MaxIds
    /\ \E raw \in RawIds(Len(manifest)) :
          parsed' = [parsed EXCEPT
                        ![Len(parsed)].fields[Len(parsed[Len(parsed)].fields)].mapping_ids =
                            Append(@, raw)]
    /\ UNCHANGED <<bpc, input_entities, options, manifest, result, relationships,
                   covered_ids, flat_candidates, rel_items, review>>
    /\ UNCHANGED <<anchorVars, saveVars, llmVars, rawVars, chatVars, streamVars, valVars>>

(***************************************************************************)
(* Raw schema documents and extract_entities                               *)
(*                                                                         *)
(* A document is [key, wrapped, items]: its one top-level key, whether it  *)
(* sits under a "schema" key, and its tables.  A table is                  *)
(* [name, schema, table, columns], a key it does not have reading None; a  *)
(* column is [is_str, name]: a bare string or a {name} object.             *)
(***************************************************************************)
\* tables of one raw schema document
MaxRawTables == 2

\* dict.get of a key the dict does not have, as an f-string prints it
NoKey == "None"

NoSchema == [key |-> "none", wrapped |-> FALSE, items |-> <<>>]

RawIdle == raw_schema = NoSchema

ColumnLists == { <<>>, <<"order_id">>, <<"order_id", "customer_id">> }

Columns(names, is_str) == [k \in DOMAIN names |-> [is_str |-> is_str, name |-> names[k]]]

\* the ways a document names a table: by name, by table, by schema and table
RawTables(is_str) ==
    { [name |-> nm[1], schema |-> nm[2], table |-> nm[3], columns |-> Columns(cols, is_str)] :
        nm \in { <<n, NoKey, NoKey>> : n \in {"orders", "customers"} }
               \cup { <<NoKey, NoKey, n>> : n \in {"orders", "customers"} }
               \cup { <<NoKey, "public", n>> : n \in {"orders", "customers"} },
        cols \in ColumnLists }

RawSchemas ==
    { [key |-> key, wrapped |-> w, items |-> items] :
        key \in {"tables", "schemas", "relations", "entities", "files"},
        w \in BOOLEAN,
        items \in UNION { UNION { [1..n -> RawTables(is_str)] : n \in 0..MaxRawTables }
                          : is_str \in BOOLEAN } }

\* f"{t.get('schema')}.{t.get('table')}"
QualName(schema, table) ==
    CASE schema = NoKey /\ table = NoKey -> "None.None"
      [] schema = NoKey /\ table = "orders" -> "None.orders"
      [] schema = NoKey /\ table = "customers" -> "None.customers"
      [] schema = "public" /\ table = NoKey -> "public.None"
      [] schema = "public" /\ table = "orders" -> "public.orders"
      [] schema = "public" /\ table = "customers" -> "public.customers"

\* extract_entities(raw): the entities list as it is, the tables list as
\* entities named schema.table, the files list as entities without fields,
\* and nothing for any other key
extract_entities(raw) ==
    IF raw.key = "entities"
    THEN [k \in DOMAIN raw.items |->
             [name |-> raw.items[k].name, fields |-> raw.items[k].columns]]
    ELSE IF raw.key = "tables"
    THEN [k \in DOMAIN raw.items |->
             [name |-> QualName(raw.items[k].schema, raw.items[k].table),
              fields |-> raw.items[k].columns]]
    ELSE IF raw.key = "files"
    THEN [k \in DOMAIN raw.items |-> [name |-> raw.items[k].name, fields |-> <<>>]]
    ELSE <<>>

\* c.get("name") in extract_entities, f.get("name") in the manifest loop: a
\* column that is a bare string has no get, the request ends in AttributeError
GetNameRaises(raw) ==
    /\ raw.key \in {"entities", "tables"}
    /\ \E k \in DOMAIN raw.items :
          \E j \in DOMAIN raw.items[k].columns : raw.items[k].columns[j].is_str

\* input_entities of the one selected connector
InputEntities(ents) ==
    [k \in DOMAIN ents |->
        [connector_id |-> "pg1", entity_name |-> ents[k].name,
         fields |-> [j \in DOMAIN ents[k].fields |-> ents[k].fields[j].name]]]

\* the request from the raw schema to the creation of the review
StartBuildRaw_review_first ==
    /\ bpc = "raw"
    /\ input_entities' = InputEntities(extract_entities(raw_schema))
    /\ manifest' = BuildManifest(input_entities', 0)
    /\ review' = [status |-> "pending", suggestions |-> None, error_message |-> FALSE]
    /\ bpc' = IF Len(manifest') = 0 THEN "rejected" ELSE "llm1"
    /\ UNCHANGED <<options, parsed, result, relationships, covered_ids,
                   flat_candidates, rel_items>>
    /\ UNCHANGED <<anchorVars, saveVars, llmVars, rawVars, chatVars, streamVars, valVars>>

StartBuildRaw ==
    /\ bpc = "raw"
    /\ IF GetNameRaises(raw_schema)
       THEN /\ bpc' = "crashed"
            /\ UNCHANGED <<input_entities, manifest, review>>
       ELSE /\ input_entities' = InputEntities(extract_entities(raw_schema))
            /\ manifest' = BuildManifest(input_entities', 0)
            /\ IF Len(manifest') = 0
               THEN /\ bpc' = "rejected"
                    /\ review' = review
               ELSE /\ bpc' = "llm1"
                    /\ review' = [status |-> "pending", suggestions |-> None,
                                  error_message |-> FALSE]
    /\ UNCHANGED <<options, parsed, result, relationships, covered_ids,
                   flat_candidates, rel_items>>
    /\ UNCHANGED <<anchorVars, saveVars, llmVars, rawVars, chatVars, streamVars, valVars>>

\* review_schema raised after its retries (LLM pass #1): the except branch
LLM1Fail ==
    /\ bpc = "llm1"
    /\ parsed = <<>>
    /\ lpc = "off" \/ lpc = "raised" \/ (lpc = "returned" /\ llm_out.t = "none")
    /\ bpc' = "failed"
    /\ review' = [review EXCEPT !.status = "failed", !.error_message = TRUE]
    /\ UNCHANGED <<input_entities, options, manifest, parsed, result, relationships,
                   covered_ids, flat_candidates, rel_items>>
    /\ UNCHANGED <<anchorVars, saveVars, llmVars, rawVars, chatVars, streamVars, valVars>>

\* a field of a clustering response
LLMF(name, sem, pk, jk, ids) ==
    [name |-> name, sem |-> sem, pk |-> pk, jk |-> jk,
     mapping_ids |-> [k \in DOMAIN ids |-> [t |-> "int", v |-> ids[k]]]]

\* whole clustering responses to the two-table manifest: the full clustering,
\* one that drops mapping id 2, one with two spellings of customer_id, one
\* that lists mapping id 0 under two fields, and one that merges the join key
\* of both tables under Customers
Scenarios ==
    { << [name |-> "Orders",
          fields |-> << LLMF("order_id", "identifier", TRUE, FALSE, <<0>>),
                        LLMF("customer_id", "identifier", FALSE, TRUE, <<1>>) >>],
         [name |-> "Customers",
          fields |-> << LLMF("customer_id", "identifier", FALSE, TRUE, <<2>>) >>] >>,
      << [name |-> "Orders",
          fields |-> << LLMF("order_id", "identifier", TRUE, FALSE, <<0>>),
                        LLMF("customer_id", "identifier", FALSE, TRUE, <<1>>) >>] >>,
      << [name |-> "Orders",
          fields |-> << LLMF("customer_id", "identifier", FALSE, TRUE, <<0>>),
                        LLMF("Customer_ID", "unknown", TRUE, FALSE, <<1>>) >>],
         [name |-> "Customers",
          fields |-> << LLMF("customer_id", "identifier", FALSE, TRUE, <<2>>) >>] >>,
      << [name |-> "Orders",
          fields |-> << LLMF("order_id", "identifier", TRUE, FALSE, <<0>>),
                        LLMF("customer_id", "identifier", FALSE, TRUE, <<0, 1>>) >>],
         [name |-> "Customers",
          fields |-> << LLMF("customer_id", "identifier", FALSE, TRUE, <<2>>) >>] >>,
      << [name |-> "Orders",
          fields |-> << LLMF("Customer_ID", "unknown", TRUE, FALSE, <<0>>) >>],
         [name |-> "Customers",
          fields |-> << LLMF("customer_id", "identifier", FALSE, TRUE, <<1, 2>>) >>] >> }

\* the clustering response, as a whole
LLMScenario ==
    /\ bpc = "llm1"
    /\ parsed = <<>>
    /\ parsed' \in Scenarios
    /\ UNCHANGED <<bpc, input_entities, options, manifest, result, relationships,
                   covered_ids, flat_candidates, rel_items, review>>
    /\ UNCHANGED <<anchorVars, saveVars, llmVars, rawVars, chatVars, streamVars, valVars>>

(***************************************************************************)
(* The LLM client (backend/services/llm_client.py): response texts, the    *)
(* layered parse and the retry loop of review_schema                       *)
(***************************************************************************)
\* longest response text drawn
MaxText == 4

\* largest retry_max drawn
MaxRetryMax == 2

Quote == "\""

\* Characters of a response text.  "P" stands for the members of a clustering
\* answer ("entities": [...] with its nested objects and plain strings), "Q"
\* for the same members written with the quotation marks U+201C and U+201D as
\* string delimiters, "A" for members whose strings hold the apostrophe
\* U+2019 (json.loads accepts them), "c" for a control character other
\* than \n and \t, "x" for a letter of prose.  No text holds a backslash.
Chars == {"{", "}", Quote, "x", "c", "P", "Q", "A"}

Members == {"P", "Q", "A"}

\* the for loop of balanced_substring from position i on
RECURSIVE ScanFrom(_, _, _)
ScanFrom(s, i, st) ==
    IF i > Len(s) THEN st
    ELSE LET ch == s[i] IN
         ScanFrom(s, i + 1,
             IF st.in_str
             THEN IF ch = Quote THEN [st EXCEPT !.in_str = FALSE] ELSE st
             ELSE IF ch = Quote THEN [st EXCEPT !.in_str = TRUE]
             ELSE IF ch = "{"
                  THEN [st EXCEPT !.start = IF st.start = 0 THEN i ELSE st.start,
                                  !.depth = st.depth + 1]
             ELSE IF ch = "}" /\ st.depth > 0
                  THEN [st EXCEPT !.depth = st.depth - 1,
                                  !.last_good = IF st.depth = 1 /\ st.start # 0
                                                THEN i ELSE st.last_good]
             ELSE st)

Scan(s) == ScanFrom(s, 1, [depth |-> 0, in_str |-> FALSE, start |-> 0, last_good |-> 0])

\* balanced_substring(s); <<>> stands for None
balanced_substring(s) ==
    LET st == Scan(s)
    IN IF st.last_good = 0 THEN <<>> ELSE SubSeq(s, st.start, st.last_good)

\* members stand inside an object and outside a string
WellPlaced(s) ==
    \A i \in DOMAIN s :
        s[i] \in Members =>
            LET st == Scan(SubSeq(s, 1, i - 1)) IN ~st.in_str /\ st.depth >= 1

Texts == { s \in UNION { [1..n -> Chars] : n \in 0..MaxText } : WellPlaced(s) }

\* the texts drawn for a repair answer and for the attempts after the first
FewTexts ==
    { <<"{", "P", "}">>, <<"{", "}">>, <<"x">>, <<Quote, "x", Quote>> }

\* values of json.loads
Fail == [t |-> "fail", entities |-> "", nonempty |-> FALSE]

JDict(m) == [t |-> "dict", entities |-> m, nonempty |-> m # "absent"]

JStr(nonempty) == [t |-> "str", entities |-> "", nonempty |-> nonempty]

\* the structure _best_effort_parse gives up to: four empty lists
EmptyStructure == [t |-> "dict", entities |-> "empty", nonempty |-> TRUE]

\* review_schema fell out of its loop: the implicit return None
NoneValue == [t |-> "none", entities |-> "", nonempty |-> FALSE]

\* the exception review_schema leaves with
Raised(e) == [t |-> "error", entities |-> e, nonempty |-> FALSE]

\* json.loads(s): an object with no members, an object with plain members,
\* or a string of letters and braces; Fail stands for the exception
json_loads(s) ==
    IF s = <<"{", "}">> THEN JDict("absent")
    ELSE IF Len(s) = 3 /\ s[1] = "{" /\ s[3] = "}" /\ s[2] \in {"P", "A"}
         THEN JDict(s[2])
    ELSE IF Len(s) >= 2 /\ s[1] = Quote /\ s[Len(s)] = Quote
            /\ \A i \in 2..(Len(s) - 1) : s[i] \in {"x", "{", "}"}
         THEN JStr(Len(s) > 2)
    ELSE Fail

\* cleaned: smart quotes replaced, control characters dropped
sanitize(text) ==
    LET kept == SelectSeq(text, LAMBDA ch : ch # "c")
    IN [i \in DOMAIN kept |-> IF kept[i] \in {"Q", "A"} THEN "P" ELSE kept[i]]

\* _best_effort_parse(text)
_best_effort_parse_strict_only(text) ==
    IF json_loads(text) # Fail THEN json_loads(text) ELSE EmptyStructure

_best_effort_parse(text) ==
    LET cleaned == sanitize(text)
        sub == balanced_substring(cleaned)
    IN IF json_loads(text) # Fail THEN json_loads(text)
       ELSE IF json_loads(cleaned) # Fail THEN json_loads(cleaned)
       ELSE IF sub # <<>> /\ json_loads(sub) # Fail THEN json_loads(sub)
       ELSE EmptyStructure

\* bool(parsed)
Truthy(v) == v.nonempty

\* OpenAIClient: parsed.get on a value that is not a dict raises
GetRaises(v) == Truthy(v) /\ v.t # "dict"

\* OpenAIClient: the test that starts the repair round-trip
NeedsRepair(v) == ~Truthy(v) \/ v.entities \notin {"P", "A"}

\* the response text: OpenAIClient reads an empty content as "{}"
ContentText(prov, content) ==
    IF prov = "openai" /\ content = <<>> THEN <<"{", "}">> ELSE content

RECURSIVE Pow2(_)
Pow2(k) == IF k = 0 THEN 1 ELSE 2 * Pow2(k - 1)

Providers == {"anthropic", "openai"}

\* backoff_base in tenths of a second (0.5 by default)
BackoffChoices == {5, 10}

RetryChoices == (0 - 1)..MaxRetryMax

NoValue == [t |-> "nothing", entities |-> "", nonempty |-> FALSE]

LLMOff ==
    /\ lpc = "off"
    /\ provider = "anthropic"
    /\ retry_max = 2
    /\ backoff_base = 5
    /\ attempt = 0
    /\ attempts_made = 0
    /\ slept = <<>>
    /\ errors = <<>>
    /\ llm_text = <<>>
    /\ llm_out = NoValue

\* while attempt <= self.retry_max, entered with attempt = a
Enter(a) ==
    IF a <= retry_max
    THEN /\ lpc' = "attempt"
         /\ attempt' = a
         /\ attempts_made' = attempts_made + 1
         /\ UNCHANGED llm_out
    ELSE /\ lpc' = "returned"
         /\ llm_out' = NoneValue
         /\ UNCHANGED <<attempt, attempts_made>>

\* except Exception as e
Except_always_retry(e) ==
    /\ errors' = Append(errors, e)
    /\ llm_text' = <<>>
    /\ slept' = Append(slept, backoff_base * Pow2(attempt))
    /\ lpc' = "attempt"
    /\ attempt' = attempt + 1
    /\ attempts_made' = attempts_made + 1
    /\ UNCHANGED llm_out

Except(e) ==
    /\ errors' = Append(errors, e)
    /\ llm_text' = <<>>
    /\ IF attempt = retry_max
       THEN /\ lpc' = "raised"
            /\ llm_out' = Raised(e)
            /\ UNCHANGED <<attempt, attempts_made, slept>>
       ELSE /\ slept' = Append(slept, backoff_base * Pow2(attempt))
            /\ Enter(attempt + 1)

\* review_schema is called
CallStart ==
    /\ lpc = "idle"
    /\ bpc \in {"off", "llm1"}
    /\ Enter(0)
    /\ UNCHANGED <<provider, retry_max, backoff_base, slept, errors, llm_text>>
    /\ UNCHANGED <<buildVars, anchorVars, saveVars, rawVars, chatVars, streamVars, valVars>>

\* the request of an attempt is answered with a text
Respond(texts) ==
    /\ lpc = "attempt"
    /\ \E content \in texts :
          LET text == ContentText(provider, content)
              v == _best_effort_parse(text)
          IN IF provider = "openai" /\ GetRaises(v)
             THEN Except("AttributeError")
             ELSE /\ llm_text' = text
                  /\ UNCHANGED <<attempt, attempts_made, slept, errors>>
                  /\ IF provider = "openai" /\ NeedsRepair(v)
                     THEN lpc' = "repair" /\ UNCHANGED llm_out
                     ELSE lpc' = "returned" /\ llm_out' = v
    /\ UNCHANGED <<provider, retry_max, backoff_base>>
    /\ UNCHANGED <<buildVars, anchorVars, saveVars, rawVars, chatVars, streamVars, valVars>>

\* OpenAIClient: the repair request is answered with a text
RepairRespond(texts) ==
    /\ lpc = "repair"
    /\ \E content \in texts :
          LET text2 == ContentText(provider, content)
          IN /\ llm_text' = text2
             /\ llm_out' = _best_effort_parse(text2)
    /\ lpc' = "returned"
    /\ UNCHANGED <<provider, retry_max, backoff_base, attempt, attempts_made, slept, errors>>
    /\ UNCHANGED <<buildVars, anchorVars, saveVars, rawVars, chatVars, streamVars, valVars>>

\* a request of an attempt raises (timeout, connection or HTTP error)
AttemptRaises ==
    /\ lpc \in {"attempt", "repair"}
    /\ \E e \in {"Timeout", "HTTPError"} : Except(e)
    /\ UNCHANGED <<provider, retry_max, backoff_base>>
    /\ UNCHANGED <<buildVars, anchorVars, saveVars, rawVars, chatVars, streamVars, valVars>>

\* the clustering answers the members stand for
FullClustering ==
    << [name |-> "Orders",
        fields |-> << LLMF("order_id", "identifier", TRUE, FALSE, <<0>>),
                      LLMF("customer_id", "identifier", FALSE, TRUE, <<1>>) >>],
       [name |-> "Customers",
        fields |-> << LLMF("customer_id", "identifier", FALSE, TRUE, <<2>>) >>] >>

ApostropheClustering ==
    << [name |-> "Customer's orders",
        fields |-> << LLMF("order_id", "identifier", TRUE, FALSE, <<0>>),
                      LLMF("customer_id", "identifier", FALSE, TRUE, <<1>>) >>],
       [name |-> "Customers",
        fields |-> << LLMF("customer_id", "identifier", FALSE, TRUE, <<2>>) >>] >>

\* result = parsed if isinstance(parsed, dict) else {}; result["entities"]
EntitiesOf(v) ==
    IF v.t = "dict" /\ v.entities = "P" THEN FullClustering
    ELSE IF v.t = "dict" /\ v.entities = "A" THEN ApostropheClustering
    ELSE <<>>

\* the relationship a clustering response carries of its own
ClusteringRelationships ==
    << [type |-> "one_to_one", from_entity |-> "Orders", to_entity |-> "Customers",
        join_on |-> <<[from_field |-> "order_id", to_field |-> "customer_id"]>>,
        confidence |-> 9] >>

\* Expand mapping_ids -> mappings (mapping_ids is popped from every field);
\* result.setdefault("relationships", []) keeps what the response carries
ExpandStep ==
    /\ bpc = "llm1"
    /\ lpc \in {"off", "returned"}
    /\ llm_out.t # "none"
    /\ LET entities == IF lpc = "off" THEN parsed ELSE EntitiesOf(llm_out)
       IN /\ result' = ExpandEntities(manifest, entities)
          /\ covered_ids' = CoveredIds(manifest, entities)
          /\ relationships' = IF entities = <<>> /\ lpc # "off"
                              THEN <<>> ELSE ClusteringRelationships
    /\ bpc' = "expanded"
    /\ parsed' = <<>>
    /\ UNCHANGED <<input_entities, options, manifest, flat_candidates, rel_items, review>>
    /\ UNCHANGED <<anchorVars, saveVars, llmVars, rawVars, chatVars, streamVars, valVars>>

\* Auto-attach any missing IDs to an Unassigned entity
RepairStep ==
    /\ bpc = "expanded"
    /\ bpc' = "repaired"
    /\ result' = RepairCoverage(manifest, result, covered_ids)
    /\ UNCHANGED <<input_entities, options, manifest, parsed, relationships, covered_ids,
                   flat_candidates, rel_items, review>>
    /\ UNCHANGED <<anchorVars, saveVars, llmVars, rawVars, chatVars, streamVars, valVars>>

\* Anchor & split cross-entity fields
AnchorStep ==
    /\ bpc = "repaired"
    /\ bpc' = "anchored"
    /\ result' = anchor_and_split_cross_entity_fields(result)
    /\ UNCHANGED <<input_entities, options, manifest, parsed, relationships, covered_ids,
                   flat_candidates, rel_items, review>>
    /\ UNCHANGED <<anchorVars, saveVars, llmVars, rawVars, chatVars, streamVars, valVars>>

Succeeded(ents, rels) ==
    [status |-> "succeeded",
     suggestions |-> [entities |-> ents, relationships |-> rels],
     error_message |-> FALSE]

\* candidate generation and caps; without candidates LLM pass #2 is skipped
\* and the review is saved with no relationships
CandidatesStep ==
    /\ bpc = "anchored"
    /\ LET cands == FlatCandidates(result)
       IN /\ flat_candidates' = cands
          /\ IF cands = <<>>
             THEN /\ bpc' = "succeeded"
                  /\ relationships' = <<>>
                  /\ review' = Succeeded(result, <<>>)
             ELSE /\ bpc' = "llm2"
                  /\ UNCHANGED <<relationships, review>>
    /\ UNCHANGED <<input_entities, options, manifest, parsed, result, covered_ids,
                   rel_items>>
    /\ UNCHANGED <<anchorVars, saveVars, llmVars, rawVars, chatVars, streamVars, valVars>>

\* the classifier response, row by row, drawn from rows, at most max of them
LLM2Row(rows, max) ==
    /\ bpc = "llm2"
    /\ Len(rel_items) < max
    /\ \E it \in rows : rel_items' = Append(rel_items, it)
    /\ UNCHANGED <<bpc, input_entities, options, manifest, parsed, result, relationships,
                   covered_ids, flat_candidates, review>>
    /\ UNCHANGED <<anchorVars, saveVars, llmVars, rawVars, chatVars, streamVars, valVars>>

\* an except branch that stores the graph built so far with the failure
LLM2Fail_partial ==
    /\ bpc = "llm2"
    /\ rel_items = <<>>
    /\ bpc' = "failed"
    /\ review' = [status |-> "failed",
                  suggestions |-> [entities |-> result, relationships |-> <<>>],
                  error_message |-> TRUE]
    /\ UNCHANGED <<input_entities, options, manifest, parsed, result, relationships,
                   covered_ids, flat_candidates, rel_items>>
    /\ UNCHANGED <<anchorVars, saveVars, llmVars, rawVars, chatVars, streamVars, valVars>>

\* review_schema raised after its retries (LLM pass #2): the except branch
LLM2Fail ==
    /\ bpc = "llm2"
    /\ rel_items = <<>>
    /\ bpc' = "failed"
    /\ review' = [review EXCEPT !.status = "failed", !.error_message = TRUE]
    /\ UNCHANGED <<input_entities, options, manifest, parsed, result, relationships,
                   covered_ids, flat_candidates, rel_items>>
    /\ UNCHANGED <<anchorVars, saveVars, llmVars, rawVars, chatVars, streamVars, valVars>>

\* filtering of the classifier rows, result["relationships"], Save review
ClassifyStep ==
    /\ bpc = "llm2"
    /\ bpc' = "succeeded"
    /\ relationships' = Classify(flat_candidates, rel_items,
                                 rel_conf_threshold(options), {}, <<>>)
    /\ review' = Succeeded(result, relationships')
    /\ UNCHANGED <<input_entities, options, manifest, parsed, result, covered_ids,
                   flat_candidates, rel_items>>
    /\ UNCHANGED <<anchorVars, saveVars, llmVars, rawVars, chatVars, streamVars, valVars>>

(***************************************************************************)
(* Anchoring run on arbitrary graphs                                       *)
(***************************************************************************)
\* mappings an input graph is made of
MappingPool ==
    { [connector_id |-> "pg1", source_entity |-> "orders",
       source_field |-> "order_id", confidence |-> 10],
      [connector_id |-> "pg1", source_entity |-> "orders",
       source_field |-> "customer_id", confidence |-> 10],
      [connector_id |-> "pg1", source_entity |-> "customers",
       source_field |-> "customer_id", confidence |-> 10],
      [connector_id |-> "pg2", source_entity |-> "orders",
       source_field |-> "order_id", confidence |-> 5] }

GraphNames == {"", "Orders", " Orders", "Customers"}

GenEntity ==
    /\ apc = "gen"
    /\ Len(g) < MaxGraphEntities
    /\ \E n \in GraphNames : g' = Append(g, [name |-> n, fields |-> <<>>])
    /\ UNCHANGED <<apc, once, twice>>
    /\ UNCHANGED <<buildVars, saveVars, llmVars, rawVars, chatVars, streamVars, valVars>>

GenField ==
    /\ apc = "gen"
    /\ g # <<>>
    /\ TotalFields(g) < MaxGraphFields
    /\ \E t \in FieldTemplates :
          g' = [g EXCEPT ![Len(g)].fields =
                   Append(@, [name |-> t.name, sem |-> t.sem, pk |-> t.pk,
                              jk |-> t.jk, mappings |-> <<>>])]
    /\ UNCHANGED <<apc, once, twice>>
    /\ UNCHANGED <<buildVars, saveVars, llmVars, rawVars, chatVars, streamVars, valVars>>

GenMapping ==
    /\ apc = "gen"
    /\ g # <<>>
    /\ g[Len(g)].fields # <<>>
    /\ Cardinality(MapPos(g)) < MaxGraphMappings
    /\ \E m \in MappingPool :
          g' = [g EXCEPT ![Len(g)].fields[Len(g[Len(g)].fields)].mappings = Append(@, m)]
    /\ UNCHANGED <<apc, once, twice>>
    /\ UNCHANGED <<buildVars, saveVars, llmVars, rawVars, chatVars, streamVars, valVars>>

\* anchor(g)
AnchorOnce ==
    /\ apc = "gen"
    /\ apc' = "once"
    /\ once' = anchor_and_split_cross_entity_fields(g)
    /\ UNCHANGED <<g, twice>>
    /\ UNCHANGED <<buildVars, saveVars, llmVars, rawVars, chatVars, streamVars, valVars>>

\* anchor(anchor(g))
AnchorTwice ==
    /\ apc = "once"
    /\ apc' = "twice"
    /\ twice' = anchor_and_split_cross_entity_fields(once)
    /\ UNCHANGED <<g, once>>
    /\ UNCHANGED <<buildVars, saveVars, llmVars, rawVars, chatVars, streamVars, valVars>>

(***************************************************************************)
(* Versioned store: save_global_canonical                                  *)
(***************************************************************************)
NumSavers == 3
MaxExpected == 2

Savers == 1..NumSavers

Tenants == {"t1", "t2"}

\* body.expected_version when the request omits it
NoVersion == -1

NoRow == [tenant_id |-> "none", version |-> 0, canonical_graph |-> 0,
          global_canonical_id |-> 0]

NoResponse == [code |-> 0]

\* filter_by(tenant_id).order_by(version.desc()).first()
LatestRow(rows, tenant) ==
    LET mine == {r \in rows : r.tenant_id = tenant}
    IN IF mine = {} THEN NoRow
       ELSE CHOOSE r \in mine : \A o \in mine : o.version <= r.version

\* latest.version if latest else 0
latest_version(row) == IF row = NoRow THEN 0 ELSE row.version

\* a check that rejects only an expected_version behind the latest
VersionConflictBehind(expected, lv) == expected < lv

\* a check that rejects only an expected_version ahead of the latest
VersionConflictAhead(expected, lv) == expected > lv

\* int(body.expected_version) != int(latest_version)
VersionConflict(expected, lv) == expected # lv

\* 1 if not latest else latest.version + 1
next_version(row) == IF row = NoRow THEN 1 ELSE row.version + 1

\* a table without the unique index
UniqueViolationNever(rows, tenant, version) == FALSE

\* ux_global_canonical_version_per_tenant rejects the insert
UniqueViolation(rows, tenant, version) ==
    \E r \in rows : r.tenant_id = tenant /\ r.version = version

\* a request arrives: tenant of the path, expected_version of the body; the
\* user_edits of request p are the graph p
SaveArrive(p) ==
    /\ spc[p] = "idle"
    /\ \E t \in Tenants, ev \in {NoVersion} \cup 0..MaxExpected :
          sreq' = [sreq EXCEPT ![p] = [tenant_id |-> t, expected_version |-> ev,
                                       user_edits |-> p]]
    /\ spc' = [spc EXCEPT ![p] = "query"]
    /\ UNCHANGED <<db, latest, sout>>
    /\ UNCHANGED <<buildVars, anchorVars, llmVars, rawVars, chatVars, streamVars, valVars>>

\* a check that does not look whether expected_version was supplied
SaveQuery_checks_omitted(p) ==
    /\ spc[p] = "query"
    /\ LET row == LatestRow(db, sreq[p].tenant_id)
       IN /\ latest' = [latest EXCEPT ![p] = row]
          /\ IF VersionConflict(sreq[p].expected_version, latest_version(row))
             THEN /\ spc' = [spc EXCEPT ![p] = "done"]
                  /\ sout' = [sout EXCEPT ![p] =
                                 [code |-> 409,
                                  latest_version |-> latest_version(row),
                                  canonical_graph |-> row.canonical_graph]]
             ELSE /\ spc' = [spc EXCEPT ![p] = "insert"]
                  /\ sout' = sout
    /\ UNCHANGED <<db, sreq>>
    /\ UNCHANGED <<buildVars, anchorVars, llmVars, rawVars, chatVars, streamVars, valVars>>

\* the query for the latest row and the version-equality check (409)
SaveQuery(p) ==
    /\ spc[p] = "query"
    /\ LET row == LatestRow(db, sreq[p].tenant_id)
       IN /\ latest' = [latest EXCEPT ![p] = row]
          /\ IF /\ sreq[p].expected_version # NoVersion
                /\ VersionConflict(sreq[p].expected_version, latest_version(row))
             THEN /\ spc' = [spc EXCEPT ![p] = "done"]
                  /\ sout' = [sout EXCEPT ![p] =
                                 [code |-> 409,
                                  latest_version |-> latest_version(row),
                                  canonical_graph |-> row.canonical_graph]]
             ELSE /\ spc' = [spc EXCEPT ![p] = "insert"]
                  /\ sout' = sout
    /\ UNCHANGED <<db, sreq>>
    /\ UNCHANGED <<buildVars, anchorVars, llmVars, rawVars, chatVars, streamVars, valVars>>

\* db.add(canon); db.commit(): the unique index makes the commit raise, which
\* the handler does not catch (500)
SaveCommit(p) ==
    /\ spc[p] = "insert"
    /\ LET v == next_version(latest[p])
       IN IF UniqueViolation(db, sreq[p].tenant_id, v)
          THEN /\ db' = db
               /\ sout' = [sout EXCEPT ![p] = [code |-> 500]]
          ELSE /\ db' = db \cup {[tenant_id |-> sreq[p].tenant_id, version |-> v,
                                  canonical_graph |-> sreq[p].user_edits,
                                  global_canonical_id |-> p]}
               /\ sout' = [sout EXCEPT ![p] =
                              [code |-> 200, version |-> v,
                               canonical_graph |-> sreq[p].user_edits]]
    /\ spc' = [spc EXCEPT ![p] = "done"]
    /\ UNCHANGED <<sreq, latest>>
    /\ UNCHANGED <<buildVars, anchorVars, llmVars, rawVars, chatVars, streamVars, valVars>>

(***************************************************************************)
(* Chat threads and history window (backend/agents/chat_graph.py)          *)
(*                                                                         *)
(* A session key f"{tenant_id}:{thread_id or 'default'}" is the pair of    *)
(* its two parts: a tenant id is a UUID and holds no colon, so the prefix  *)
(* test of list_threads is equality of the first part and split(":", 1)[1] *)
(* is the second part.  Thread ids are integers: 0 is the string           *)
(* "default", 1..MaxThreads are values of uuid4().hex, NoThread is None    *)
(* or the empty string.                                                    *)
(***************************************************************************)
MaxThreads == 2
MaxMessages == 5
MaxStreamEvents == 3

NoThread == 0 - 1

DefaultThread == 0

ThreadArgs == {NoThread, DefaultThread} \cup (1..MaxThreads)

\* the default of _SESSION_MAX_TURNS.get(session_id, 20)
DefaultMaxTurns == 20

\* values of the tenant setting CHAT_HISTORY_MAX_TURNS
TurnChoices == {0 - 1, 0, 1, 2}

NoCall == [op |-> "none", tenant_id |-> "none", thread_id |-> NoThread, ret |-> <<>>]

ChatIdle ==
    /\ thread_histories = <<>>
    /\ session_max_turns = <<>>
    /\ tcall = NoCall

_session_key(tenant_id, thread_id) ==
    <<tenant_id, IF thread_id = NoThread THEN DefaultThread ELSE thread_id>>

\* d[key] = value of a dict
SetItem(d, key, value) ==
    [k \in DOMAIN d \cup {key} |-> IF k = key THEN value ELSE d[k]]

\* d.pop(key, None)
Pop(d, key) == [k \in DOMAIN d \ {key} |-> d[k]]

\* the ids listed for a tenant in a store of histories
threads_in(histories, tenant_id) ==
    {k[2] : k \in {kk \in DOMAIN histories : kk[1] = tenant_id}}

list_threads(tenant_id) == threads_in(thread_histories, tenant_id)

create_thread(tenant_id) ==
    /\ cpc = "off"
    /\ \E tid \in 1..MaxThreads :
          /\ thread_histories' =
                 SetItem(thread_histories, _session_key(tenant_id, tid), <<>>)
          /\ tcall' = [op |-> "create_thread", tenant_id |-> tenant_id,
                       thread_id |-> NoThread, ret |-> tid]
    /\ UNCHANGED session_max_turns
    /\ UNCHANGED <<buildVars, anchorVars, saveVars, llmVars, rawVars, streamVars, valVars>>

\* a delete_thread that pops the thread id under every tenant
delete_thread_any_tenant(tenant_id, thread_id) ==
    /\ cpc = "off"
    /\ LET key == _session_key(tenant_id, thread_id)
       IN  /\ thread_histories' =
                  [k \in {kk \in DOMAIN thread_histories : kk[2] # key[2]} |->
                      thread_histories[k]]
           /\ tcall' = [op |-> "delete_thread", tenant_id |-> tenant_id,
                        thread_id |-> thread_id,
                        ret |-> key \in DOMAIN thread_histories]
    /\ UNCHANGED session_max_turns
    /\ UNCHANGED <<buildVars, anchorVars, saveVars, llmVars, rawVars, streamVars, valVars>>

delete_thread(tenant_id, thread_id) ==
    /\ cpc = "off"
    /\ LET key == _session_key(tenant_id, thread_id)
       IN  /\ thread_histories' = Pop(thread_histories, key)
           /\ tcall' = [op |-> "delete_thread", tenant_id |-> tenant_id,
                        thread_id |-> thread_id,
                        ret |-> key \in DOMAIN thread_histories]
    /\ UNCHANGED session_max_turns
    /\ UNCHANGED <<buildVars, anchorVars, saveVars, llmVars, rawVars, streamVars, valVars>>

\* msgs[:limit], the oldest messages
LastN_oldest(msgs, limit) ==
    IF Len(msgs) > limit THEN SubSeq(msgs, 1, limit) ELSE msgs

\* msgs[-limit:] for limit > 0
LastN(msgs, limit) ==
    IF Len(msgs) > limit THEN SubSeq(msgs, Len(msgs) - limit + 1, Len(msgs)) ELSE msgs

max_turns_of(session_id) ==
    IF session_id \in DOMAIN session_max_turns
    THEN session_max_turns[session_id] ELSE DefaultMaxTurns

trimmed(msgs, max_turns) ==
    IF max_turns > 0 THEN LastN(msgs, 2 * max_turns) ELSE msgs

_history_for_session(session_id) ==
    /\ cpc = "off"
    /\ LET hist == IF session_id \in DOMAIN thread_histories
                   THEN thread_histories[session_id] ELSE <<>>
           kept == trimmed(hist, max_turns_of(session_id))
       IN  /\ thread_histories' = SetItem(thread_histories, session_id, kept)
           /\ tcall' = [op |-> "_history_for_session", tenant_id |-> session_id[1],
                        thread_id |-> session_id[2], ret |-> kept]
    /\ UNCHANGED session_max_turns
    /\ UNCHANGED <<buildVars, anchorVars, saveVars, llmVars, rawVars, streamVars, valVars>>

\* the message history appends a message to a stored history; a message is
\* its number in the session
add_message(session_id) ==
    /\ cpc = "off"
    /\ session_id \in DOMAIN thread_histories
    /\ LET hist == thread_histories[session_id]
           number == IF hist = <<>> THEN 1 ELSE hist[Len(hist)] + 1
       IN  /\ number <= MaxMessages
           /\ thread_histories' = SetItem(thread_histories, session_id,
                                          Append(hist, number))
           /\ tcall' = [op |-> "add_message", tenant_id |-> session_id[1],
                        thread_id |-> session_id[2], ret |-> <<>>]
    /\ UNCHANGED session_max_turns
    /\ UNCHANGED <<buildVars, anchorVars, saveVars, llmVars, rawVars, streamVars, valVars>>

(***************************************************************************)
(* run_chat_agent_stream                                                   *)
(***************************************************************************)
StreamIdle ==
    /\ cpc = "off"
    /\ stream_end = "none"
    /\ events = <<>>

\* events of the underlying stream, as far as the loop body tells them apart
StreamEvents ==
    [event : {"on_llm_stream", "on_chat_model_stream"}, token : {"", "x"},
     serializable : {TRUE}]
    \cup [event : {"on_tool_start", "on_llm_end", "on_chat_model_end",
                   "on_agent_action", "on_chain_start", "on_retriever_end"},
          token : {""}, serializable : {TRUE}]
    \cup [event : {"on_tool_end", "on_chain_end"}, token : {""},
          serializable : BOOLEAN]

NoEvent == "none"

\* what the loop body yields for one event; "raise" when json.dumps of the
\* payload raises
yielded(ev) ==
    CASE ev.event \in {"on_llm_stream", "on_chat_model_stream"} ->
             IF ev.token # "" THEN "token" ELSE NoEvent
      [] ev.event = "on_tool_start" -> "tool_start"
      [] ev.event = "on_tool_end" -> IF ev.serializable THEN "tool_end" ELSE "raise"
      [] ev.event \in {"on_llm_end", "on_chat_model_end"} -> NoEvent
      [] ev.event \in {"on_agent_action", "on_chain_start"} -> "thought"
      [] ev.event = "on_chain_end" -> IF ev.serializable THEN "final" ELSE "raise"
      [] OTHER -> NoEvent

\* the generator runs to its first yield
ChatStart(tenant_id, thread_id, max_turns_cfg) ==
    /\ cpc = "start"
    /\ session_max_turns' =
           SetItem(session_max_turns, _session_key(tenant_id, thread_id), max_turns_cfg)
    /\ events' = Append(events, "ready")
    /\ cpc' = "streaming"
    /\ UNCHANGED <<stream_end, thread_histories, tcall>>
    /\ UNCHANGED <<buildVars, anchorVars, saveVars, llmVars, rawVars, valVars>>

StreamEvent(ev) ==
    /\ cpc = "streaming"
    /\ Len(events) <= MaxStreamEvents
    /\ LET y == yielded(ev)
       IN  CASE y = NoEvent -> UNCHANGED <<cpc, stream_end, events>>
             [] y = "raise" ->
                    /\ events' = Append(events, "error")
                    /\ stream_end' = "body_raised"
                    /\ cpc' = "finally"
             [] OTHER ->
                    /\ events' = Append(events, y)
                    /\ UNCHANGED <<cpc, stream_end>>
    /\ UNCHANGED chatVars
    /\ UNCHANGED <<buildVars, anchorVars, saveVars, llmVars, rawVars, valVars>>

StreamEnds ==
    /\ cpc = "streaming"
    /\ stream_end' = "ended"
    /\ cpc' = "finally"
    /\ UNCHANGED events
    /\ UNCHANGED chatVars
    /\ UNCHANGED <<buildVars, anchorVars, saveVars, llmVars, rawVars, valVars>>

\* a run without the except branch: nothing is yielded for the exception
StreamRaises_silent ==
    /\ cpc = "streaming"
    /\ stream_end' = "raised"
    /\ cpc' = "finally"
    /\ UNCHANGED events
    /\ UNCHANGED chatVars
    /\ UNCHANGED <<buildVars, anchorVars, saveVars, llmVars, rawVars, valVars>>

\* the underlying stream raises an Exception: the except branch yields
StreamRaises ==
    /\ cpc = "streaming"
    /\ events' = Append(events, "error")
    /\ stream_end' = "raised"
    /\ cpc' = "finally"
    /\ UNCHANGED chatVars
    /\ UNCHANGED <<buildVars, anchorVars, saveVars, llmVars, rawVars, valVars>>

\* the finally branch: the usage log is best effort, then the last yield
Finally ==
    /\ cpc = "finally"
    /\ events' = Append(events, "done")
    /\ cpc' = "closed"
    /\ UNCHANGED stream_end
    /\ UNCHANGED chatVars
    /\ UNCHANGED <<buildVars, anchorVars, saveVars, llmVars, rawVars, valVars>>

(***************************************************************************)
(* validate_canonical                                                      *)
(***************************************************************************)
NoGraph == [entities |-> <<>>, relationships |-> <<>>]

NoValidation == [raised |-> FALSE, ok |-> FALSE, errors |-> <<>>]

ValIdle ==
    /\ vpc = "off"
    /\ vgraph = NoGraph
    /\ vout = NoValidation

MaxVEntities == 2
MaxVRels == 1

VField(name, pii) == [kind |-> "dict", name |-> name, pii |-> pii]

VEntity(name, fields) == [kind |-> "dict", name |-> name, fields |-> fields]

\* an element of a list that is not a dict (a string, a number, null)
NotADict == "str"

NonDictEntity == [kind |-> NotADict, name |-> "", fields |-> <<>>]

Pair(from_field, to_field) == [from_field |-> from_field, to_field |-> to_field]

\* a key the dict does not have reads as the empty string or the empty list
VRel(type, from_entity, to_entity, from_field, to_field, join_on) ==
    [kind |-> "dict", type |-> type, from_entity |-> from_entity,
     to_entity |-> to_entity, from_field |-> from_field, to_field |-> to_field,
     join_on |-> join_on]

NonDictRel == [kind |-> NotADict, type |-> "", from_entity |-> "", to_entity |-> "",
               from_field |-> "", to_field |-> "", join_on |-> <<>>]

EntityChoices ==
    { VEntity("Orders", <<VField("order_id", ""), VField("customer_id", "")>>),
      VEntity("orders", <<VField("Customer_ID", "High")>>),
      VEntity("Customers", <<VField("customer_id", "low")>>),
      VEntity("Customers", <<VField("customer_id", ""), VField("Customer_ID", "")>>),
      VEntity("", <<VField("customer_id", "")>>),
      VEntity("Customers", <<VField("", "")>>),
      VEntity("Customers", <<VField("customer_id", "secret")>>),
      NonDictEntity }

RelChoices ==
    { VRel("", "Orders", "Customers", "customer_id", "customer_id", <<>>),
      VRel("One_To_Many", "Orders", "Customers", "Customer_ID", "customer_id", <<>>),
      VRel("friend", "Orders", "Customers", "customer_id", "customer_id", <<>>),
      VRel("many_to_one", "Suppliers", "Customers", "", "", <<>>),
      VRel("many_to_one", "Orders", "", "", "", <<>>),
      VRel("many_to_one", "Orders", "Customers", "nope", "customer_id", <<>>),
      VRel("many_to_one", "Orders", "Customers", "order_id", "", <<>>),
      VRel("many_to_one", "Orders", "Customers", "", "",
           <<Pair("customer_id", "customer_id")>>),
      VRel("many_to_one", "Orders", "Customers", "", "",
           <<Pair("customer_id", "customer_id"), Pair("order_id", "nope")>>),
      VRel("many_to_one", "Orders", "Customers", "", "",
           <<Pair("", "customer_id")>>),
      VRel("many_to_one", "Orders", "Customers", "customer_id", "customer_id",
           <<Pair("nope", "nope")>>),
      VRel("unknown", "Orders", "Customers", "", "", <<>>),
      NonDictRel }

\* the lists of at most n elements of S
UpTo(S, n) == UNION {[1..m -> S] : m \in 0..n}

Graphs ==
    [entities : UpTo(EntityChoices, MaxVEntities),
     relationships : UpTo(RelChoices, MaxVRels)]

Err(path, msg) == [path |-> path, message |-> msg]

\* the errors added under a condition
ErrIf(cond, path, msg) == IF cond THEN <<Err(path, msg)>> ELSE <<>>

RECURSIVE Flatten(_)
Flatten(lists) ==
    IF lists = <<>> THEN <<>> ELSE Head(lists) \o Flatten(Tail(lists))

PiiLevels == {"none", "low", "medium", "high"}

RelTypeEnum == {"one_to_one", "one_to_many", "many_to_one", "many_to_many", "unknown"}

\* the errors of field j of entity i (paths count from 0)
field_errors(fields, i, j) ==
    LET f == fields[j]
        fname == Strip(f.name)
        fk == Lower(fname)
        seen_f == {Lower(Strip(fields[h].name)) : h \in 1..(j - 1)}
        pii == Lower(IF f.pii = "" THEN "none" ELSE f.pii)
        at == <<"unified_entities", ToString(i - 1), "fields", ToString(j - 1)>>
    IN  ErrIf(fname = "", at \o <<"name">>, "required")
        \o ErrIf(fk \in seen_f, at \o <<"name">>, "duplicate field name")
        \o ErrIf(pii \notin PiiLevels, at \o <<"pii_sensitivity">>, "invalid enum")

\* the errors of entity i
entity_errors(ents, i) ==
    LET e == ents[i]
        name == Strip(e.name)
        key == Lower(name)
        seen_names == {Lower(Strip(ents[h].name)) : h \in 1..(i - 1)}
        at == <<"unified_entities", ToString(i - 1)>>
    IN  ErrIf(name = "", at \o <<"name">>, "required")
        \o ErrIf(key \in seen_names, at \o <<"name">>, "duplicate entity name")
        \o Flatten([j \in 1..Len(e.fields) |-> field_errors(e.fields, i, j)])

\* ent_index.get(key, {}).get("fields", []): the fields of the last entity of
\* that lowered name
index_fields(ents, key) ==
    LET named == {i \in DOMAIN ents : Lower(ents[i].name) = key}
    IN  IF named = {} THEN <<>> ELSE ents[Max(named)].fields

in_ent_index(ents, key) == \E i \in DOMAIN ents : Lower(ents[i].name) = key

lowered_names(fields) == {Lower(fields[j].name) : j \in DOMAIN fields}

\* the errors of pair idxp of join_on of relationship k
pair_errors(ents, r, k, idxp) ==
    LET p == r.join_on[idxp]
        pf == Lower(p.from_field)
        pt == Lower(p.to_field)
        at == <<"relationships", ToString(k - 1), "join_on", ToString(idxp - 1)>>
    IN  IF pf = "" \/ pt = ""
        THEN <<Err(at, "from_field and to_field required")>>
        ELSE ErrIf(pf \notin lowered_names(index_fields(ents, Lower(r.from_entity))),
                   at \o <<"from_field">>, "unknown field for from_entity")
             \o ErrIf(pt \notin lowered_names(index_fields(ents, Lower(r.to_entity))),
                      at \o <<"to_field">>, "unknown field for to_entity")

\* the errors of relationship k
rel_errors(ents, rels, k) ==
    LET r == rels[k]
        t == Lower(IF r.type = "" THEN "unknown" ELSE r.type)
        fe == Lower(r.from_entity)
        te == Lower(r.to_entity)
        ff == r.from_field
        tf == r.to_field
        at == <<"relationships", ToString(k - 1)>>
    IN  ErrIf(t \notin RelTypeEnum, at \o <<"type">>, "invalid enum")
        \o ErrIf(~in_ent_index(ents, fe), at \o <<"from_entity">>, "unknown entity")
        \o ErrIf(~in_ent_index(ents, te), at \o <<"to_entity">>, "unknown entity")
        \o (IF ff # "" \/ tf # ""
            THEN ErrIf(ff # "" /\ Lower(ff) \notin lowered_names(index_fields(ents, fe)),
                       at \o <<"from_field">>, "unknown field for from_entity")
                 \o ErrIf(tf # "" /\ Lower(tf) \notin lowered_names(index_fields(ents, te)),
                          at \o <<"to_field">>, "unknown field for to_entity")
            ELSE Flatten([idxp \in 1..Len(r.join_on) |-> pair_errors(ents, r, k, idxp)]))

\* e.get and r.get of an element that is not a dict raise AttributeError
GetAttrRaises(graph) ==
    \/ \E i \in DOMAIN graph.entities : graph.entities[i].kind # "dict"
    \/ \E k \in DOMAIN graph.relationships : graph.relationships[k].kind # "dict"

validate(graph) ==
    IF GetAttrRaises(graph)
    THEN [raised |-> TRUE, ok |-> FALSE, errors |-> <<>>]
    ELSE LET ents == graph.entities
             rels == graph.relationships
             errors_ == Flatten([i \in 1..Len(ents) |-> entity_errors(ents, i)])
                        \o Flatten([k \in 1..Len(rels) |-> rel_errors(ents, rels, k)])
         IN  [raised |-> FALSE, ok |-> errors_ = <<>>, errors |-> errors_]

\* the request: a response, or the unhandled exception
validate_canonical ==
    /\ vpc = "start"
    /\ vout' = validate(vgraph)
    /\ vpc' = IF validate(vgraph).raised THEN "raised" ELSE "returned"
    /\ UNCHANGED vgraph
    /\ UNCHANGED <<buildVars, anchorVars, saveVars, llmVars, rawVars, chatVars, streamVars>>

(***************************************************************************)
(* Specifications                                                          *)
(***************************************************************************)
BuildIdle ==
    /\ bpc = "off"
    /\ input_entities = <<>>
    /\ options = NoThreshold
    /\ manifest = <<>>
    /\ parsed = <<>>
    /\ result = <<>>
    /\ relationships = <<>>
    /\ covered_ids = {}
    /\ flat_candidates = <<>>
    /\ rel_items = <<>>
    /\ review = NoReview

AnchorIdle ==
    /\ apc = "off"
    /\ g = <<>>
    /\ once = <<>>
    /\ twice = <<>>

SaveIdle ==
    /\ db = {}
    /\ spc = [p \in Savers |-> "off"]
    /\ sreq = [p \in Savers |-> [tenant_id |-> "none", expected_version |-> NoVersion,
                                 user_edits |-> 0]]
    /\ latest = [p \in Savers |-> NoRow]
    /\ sout = [p \in Savers |-> NoResponse]

\* rows of the classifier response drawn in the build specification
FewRows ==
    { [accept |-> TRUE, pair_id |-> [t |-> "int", v |-> 0], type |-> "",
       confidence |-> 9],
      [accept |-> TRUE, pair_id |-> [t |-> "int", v |-> 1], type |-> "many_to_one",
       confidence |-> 5] }

\* one build request
Init ==
    /\ bpc = "start"
    /\ input_entities \in InputChoices
    /\ options = NoThreshold
    /\ manifest = <<>>
    /\ parsed = <<>>
    /\ result = <<>>
    /\ relationships = <<>>
    /\ covered_ids = {}
    /\ flat_candidates = <<>>
    /\ rel_items = <<>>
    /\ review = NoReview
    /\ AnchorIdle
    /\ SaveIdle
    /\ LLMOff
    /\ RawIdle
    /\ ChatIdle
    /\ StreamIdle
    /\ ValIdle

Next ==
    \/ StartBuild
    \/ LLMScenario
    \/ LLMEntity
    \/ LLMField
    \/ LLMId
    \/ LLM1Fail
    \/ ExpandStep
    \/ RepairStep
    \/ AnchorStep
    \/ CandidatesStep
    \/ LLM2Row(FewRows, 1)
    \/ LLM2Fail
    \/ ClassifyStep

Spec == Init /\ [][Next]_vars

\* one build request on the two-table schema, every classifier response
MaxRows == 2

ThresholdChoices == {NoThreshold, 0, 9}

ClassifierRows ==
    [accept : BOOLEAN,
     pair_id : {[t |-> "int", v |-> 0], [t |-> "int", v |-> 1], [t |-> "bad", v |-> 0]},
     type : {"", "One_To_Many", "friend"},
     confidence : {5, 6, 9}]

InitRel ==
    /\ bpc = "start"
    /\ input_entities =
          << [connector_id |-> "pg1", entity_name |-> "orders",
              fields |-> <<"order_id", "customer_id">>],
             [connector_id |-> "pg1", entity_name |-> "customers",
              fields |-> <<"customer_id">>] >>
    /\ options \in ThresholdChoices
    /\ manifest = <<>>
    /\ parsed = <<>>
    /\ result = <<>>
    /\ relationships = <<>>
    /\ covered_ids = {}
    /\ flat_candidates = <<>>
    /\ rel_items = <<>>
    /\ review = NoReview
    /\ AnchorIdle
    /\ SaveIdle
    /\ LLMOff
    /\ RawIdle
    /\ ChatIdle
    /\ StreamIdle
    /\ ValIdle

NextRel ==
    \/ StartBuild
    \/ LLMScenario
    \/ LLM1Fail
    \/ ExpandStep
    \/ RepairStep
    \/ AnchorStep
    \/ CandidatesStep
    \/ LLM2Row(ClassifierRows, MaxRows)
    \/ LLM2Fail
    \/ ClassifyStep

SpecRel == InitRel /\ [][NextRel]_vars

\* anchoring applied to a graph and to its own output
InitAnchor ==
    /\ BuildIdle
    /\ SaveIdle
    /\ LLMOff
    /\ RawIdle
    /\ apc = "gen"
    /\ g = <<>>
    /\ once = <<>>
    /\ twice = <<>>
    /\ ChatIdle
    /\ StreamIdle
    /\ ValIdle

NextAnchor ==
    \/ GenEntity
    \/ GenField
    \/ GenMapping
    \/ AnchorOnce
    \/ AnchorTwice

SpecAnchor == InitAnchor /\ [][NextAnchor]_vars

\* concurrent save requests
InitSave ==
    /\ BuildIdle
    /\ AnchorIdle
    /\ LLMOff
    /\ RawIdle
    /\ db = {}
    /\ spc = [p \in Savers |-> "idle"]
    /\ sreq = [p \in Savers |-> [tenant_id |-> "none", expected_version |-> NoVersion,
                                 user_edits |-> 0]]
    /\ latest = [p \in Savers |-> NoRow]
    /\ sout = [p \in Savers |-> NoResponse]
    /\ ChatIdle
    /\ StreamIdle
    /\ ValIdle

NextSave ==
    \/ \E p \in Savers : SaveArrive(p)
    \/ \E p \in Savers : SaveQuery(p)
    \/ \E p \in Savers : SaveCommit(p)

SpecSave == InitSave /\ [][NextSave]_vars

(***************************************************************************)
(* One build request on a schema of many tables with the same key columns  *)
(***************************************************************************)
\* tables of the schema
MaxTables == 12

TableNames ==
    <<"t01", "t02", "t03", "t04", "t05", "t06", "t07", "t08", "t09", "t10",
      "t11", "t12", "t13", "t14">>

\* column lists a table of the schema has
TableShapes ==
    { <<"customer_id", "Customer_ID", "customer-id">>,
      <<"customer_id", "Customer_ID">>,
      <<"order_id", "customer_id">> }

\* n tables, the odd ones with one column list and the even ones with another
WideSchema(n, odd, even) ==
    [i \in 1..n |-> [connector_id |-> "pg1", entity_name |-> TableNames[i],
                      fields |-> IF i % 2 = 1 THEN odd ELSE even]]

\* what the clustering response says of a column
ColumnTemplate(name) ==
    CASE name = "order_id" -> [sem |-> "identifier", pk |-> TRUE, jk |-> FALSE]
      [] name = "customer_id" -> [sem |-> "identifier", pk |-> FALSE, jk |-> TRUE]
      [] name = "Customer_ID" -> [sem |-> "unknown", pk |-> TRUE, jk |-> FALSE]
      [] OTHER -> [sem |-> "identifier", pk |-> FALSE, jk |-> FALSE]

\* the clustering response that makes one entity of every table and one
\* field of every column
LLMPerTable ==
    /\ bpc = "llm1"
    /\ parsed = <<>>
    /\ parsed' =
          [i \in DOMAIN input_entities |->
              [name |-> input_entities[i].entity_name,
               fields |->
                  [j \in DOMAIN input_entities[i].fields |->
                      LET col == input_entities[i].fields[j]
                          k == CHOOSE n \in DOMAIN manifest :
                                  /\ manifest[n].source_entity = input_entities[i].entity_name
                                  /\ manifest[n].source_field = col
                      IN LLMF(col, ColumnTemplate(col).sem, ColumnTemplate(col).pk,
                              ColumnTemplate(col).jk, <<manifest[k].mid>>)]]]
    /\ UNCHANGED <<bpc, input_entities, options, manifest, result, relationships,
                   covered_ids, flat_candidates, rel_items, review>>
    /\ UNCHANGED <<anchorVars, saveVars, llmVars, rawVars, chatVars, streamVars, valVars>>

InitWide ==
    /\ bpc = "start"
    /\ \E n \in 1..MaxTables, odd \in TableShapes, even \in TableShapes :
          input_entities = WideSchema(n, odd, even)
    /\ options = NoThreshold
    /\ manifest = <<>>
    /\ parsed = <<>>
    /\ result = <<>>
    /\ relationships = <<>>
    /\ covered_ids = {}
    /\ flat_candidates = <<>>
    /\ rel_items = <<>>
    /\ review = NoReview
    /\ AnchorIdle
    /\ SaveIdle
    /\ LLMOff
    /\ RawIdle
    /\ ChatIdle
    /\ StreamIdle
    /\ ValIdle

NextWide ==
    \/ StartBuild
    \/ LLMPerTable
    \/ ExpandStep
    \/ RepairStep
    \/ AnchorStep
    \/ CandidatesStep
    \/ LLM2Fail

SpecWide == InitWide /\ [][NextWide]_vars

\* one review_schema call: both providers, every retry_max up to MaxRetryMax
\* (and the negative -1), each request answered with a text or an exception
InitLLM ==
    /\ BuildIdle
    /\ AnchorIdle
    /\ SaveIdle
    /\ lpc = "idle"
    /\ provider \in Providers
    /\ retry_max \in RetryChoices
    /\ backoff_base \in BackoffChoices
    /\ attempt = 0
    /\ attempts_made = 0
    /\ slept = <<>>
    /\ errors = <<>>
    /\ llm_text = <<>>
    /\ llm_out = NoValue
    /\ RawIdle
    /\ ChatIdle
    /\ StreamIdle
    /\ ValIdle

NextLLM ==
    \/ CallStart
    \/ Respond(FewTexts)
    \/ RepairRespond(FewTexts)
    \/ AttemptRaises

SpecLLM == InitLLM /\ [][NextLLM]_vars

\* every request is answered or fails in the end (the clients pass a timeout)
FairSpecLLM == SpecLLM /\ WF_vars(NextLLM)

\* one build request on the two-table schema whose clustering call goes
\* through review_schema, with every answer text up to MaxText characters on
\* the first attempt; requests do not fail in transport
InitParse ==
    /\ bpc = "start"
    /\ input_entities =
          << [connector_id |-> "pg1", entity_name |-> "orders",
              fields |-> <<"order_id", "customer_id">>],
             [connector_id |-> "pg1", entity_name |-> "customers",
              fields |-> <<"customer_id">>] >>
    /\ options = NoThreshold
    /\ manifest = <<>>
    /\ parsed = <<>>
    /\ result = <<>>
    /\ relationships = <<>>
    /\ covered_ids = {}
    /\ flat_candidates = <<>>
    /\ rel_items = <<>>
    /\ review = NoReview
    /\ AnchorIdle
    /\ SaveIdle
    /\ lpc = "idle"
    /\ provider \in Providers
    /\ retry_max = 2
    /\ backoff_base = 5
    /\ attempt = 0
    /\ attempts_made = 0
    /\ slept = <<>>
    /\ errors = <<>>
    /\ llm_text = <<>>
    /\ llm_out = NoValue
    /\ RawIdle
    /\ ChatIdle
    /\ StreamIdle
    /\ ValIdle

NextParse ==
    \/ StartBuild
    \/ CallStart
    \/ Respond(IF attempt = 0 THEN Texts ELSE FewTexts)
    \/ RepairRespond(FewTexts)
    \/ LLM1Fail
    \/ ExpandStep
    \/ RepairStep
    \/ AnchorStep
    \/ CandidatesStep
    \/ LLM2Row(FewRows, 1)
    \/ LLM2Fail
    \/ ClassifyStep

SpecParse == InitParse /\ [][NextParse]_vars

\* one build request from a raw schema document up to the return of the
\* clustering call
InitShapes ==
    /\ bpc = "raw"
    /\ input_entities = <<>>
    /\ options = NoThreshold
    /\ manifest = <<>>
    /\ parsed = <<>>
    /\ result = <<>>
    /\ relationships = <<>>
    /\ covered_ids = {}
    /\ flat_candidates = <<>>
    /\ rel_items = <<>>
    /\ review = NoReview
    /\ AnchorIdle
    /\ SaveIdle
    /\ lpc = "idle"
    /\ provider = "anthropic"
    /\ retry_max = 2
    /\ backoff_base = 5
    /\ attempt = 0
    /\ attempts_made = 0
    /\ slept = <<>>
    /\ errors = <<>>
    /\ llm_text = <<>>
    /\ llm_out = NoValue
    /\ raw_schema \in RawSchemas
    /\ ChatIdle
    /\ StreamIdle
    /\ ValIdle

NextShapes ==
    \/ StartBuildRaw
    \/ CallStart
    \/ Respond(FewTexts)

SpecShapes == InitShapes /\ [][NextShapes]_vars

\* create_thread and delete_thread calls of two tenants on an empty store
InitThreads ==
    /\ BuildIdle
    /\ AnchorIdle
    /\ SaveIdle
    /\ LLMOff
    /\ RawIdle
    /\ ChatIdle
    /\ StreamIdle
    /\ ValIdle

NextThreads ==
    \/ \E tenant_id \in Tenants : create_thread(tenant_id)
    \/ \E tenant_id \in Tenants : \E thread_id \in ThreadArgs :
          delete_thread(tenant_id, thread_id)

SpecThreads == InitThreads /\ [][NextThreads]_vars

\* two sessions whose window earlier chat runs have configured or not
HistorySessions == {_session_key("t1", NoThread), _session_key("t2", 1)}

InitHistory ==
    /\ BuildIdle
    /\ AnchorIdle
    /\ SaveIdle
    /\ LLMOff
    /\ RawIdle
    /\ thread_histories = <<>>
    /\ \E configured \in SUBSET HistorySessions :
          session_max_turns \in [configured -> TurnChoices]
    /\ tcall = NoCall
    /\ StreamIdle
    /\ ValIdle

NextHistory ==
    \/ \E session_id \in HistorySessions : _history_for_session(session_id)
    \/ \E session_id \in HistorySessions : add_message(session_id)

SpecHistory == InitHistory /\ [][NextHistory]_vars

\* one run of run_chat_agent_stream
InitStream ==
    /\ BuildIdle
    /\ AnchorIdle
    /\ SaveIdle
    /\ LLMOff
    /\ RawIdle
    /\ ChatIdle
    /\ cpc = "start"
    /\ stream_end = "none"
    /\ events = <<>>
    /\ ValIdle

NextStream ==
    \/ \E tenant_id \in Tenants : \E thread_id \in ThreadArgs :
          \E max_turns_cfg \in TurnChoices :
             ChatStart(tenant_id, thread_id, max_turns_cfg)
    \/ \E ev \in StreamEvents : StreamEvent(ev)
    \/ StreamEnds
    \/ StreamRaises
    \/ Finally

SpecStream == InitStream /\ [][NextStream]_vars

\* one validate request on a candidate graph
InitValidate ==
    /\ BuildIdle
    /\ AnchorIdle
    /\ SaveIdle
    /\ LLMOff
    /\ RawIdle
    /\ ChatIdle
    /\ StreamIdle
    /\ vpc = "start"
    /\ vgraph \in Graphs
    /\ vout = NoValidation

NextValidate == validate_canonical

SpecValidate == InitValidate /\ [][NextValidate]_vars

(***************************************************************************)
(* Properties                                                              *)
(***************************************************************************)
\* triples reachable through the mappings of a graph
MappedTriples(ents) == {Triple(MapAt(ents, p)) : p \in MapPos(ents)}

ManifestTriples(mf) == {Triple(mf[k]) : k \in DOMAIN mf}

ManifestIds(mf) == {mf[k].mid : k \in DOMAIN mf}

\* manifest ids whose triple some mapping of the graph carries
ReachableIds(mf, ents) ==
    {mf[k].mid : k \in {n \in DOMAIN mf : Triple(mf[n]) \in MappedTriples(ents)}}

\* the manifest entry is mapped, with confidence 0.5, by the fallback field of
\* its source entity in a last entity named Unassigned
InFallback(ents, m) ==
    /\ ents # <<>>
    /\ ents[Len(ents)].name = "Unassigned"
    /\ \E j \in DOMAIN ents[Len(ents)].fields :
          LET f == ents[Len(ents)].fields[j]
          IN /\ f.name = RawName(m.source_entity)
             /\ \E k \in DOMAIN f.mappings :
                   /\ Triple(f.mappings[k]) = Triple(m)
                   /\ f.mappings[k].confidence = 5

\* C1: after the expansion and the repair step the manifest ids reachable
\* through the mappings are exactly the ids of the manifest, and every id the
\* clustering response did not cover sits in a fallback field of Unassigned.
CoverageAfterRepair ==
    bpc = "repaired" =>
        /\ ReachableIds(manifest, result) = ManifestIds(manifest)
        /\ \A k \in DOMAIN manifest :
              manifest[k].mid \notin covered_ids => InFallback(result, manifest[k])

\* a repair that had both covered and uncovered ids to deal with
CoverageAfterRepairWitness ==
    /\ bpc = "repaired"
    /\ covered_ids # {}
    /\ covered_ids # ManifestIds(manifest)
    /\ result[Len(result)].name = "Unassigned"
    /\ Len(result) > 1

\* C2: the graph stored by a succeeded build maps exactly the triples of the
\* manifest of its request.
FinalGraphCoverage ==
    bpc = "succeeded" =>
        /\ review.status = "succeeded"
        /\ MappedTriples(review.suggestions.entities) = ManifestTriples(manifest)

\* a succeeded build in which anchoring moved a repaired mapping out of
\* Unassigned
FinalGraphCoverageWitness ==
    /\ bpc = "succeeded"
    /\ review.status = "succeeded"
    /\ \E p \in MapPos(review.suggestions.entities) :
          /\ MapAt(review.suggestions.entities, p).confidence = 5
          /\ review.suggestions.entities[p[1]].name # "Unassigned"

\* C3: after anchoring no triple is mapped by two different canonical fields.
NoDuplicateMapping ==
    bpc = "anchored" =>
        \A p, q \in MapPos(result) :
            Triple(MapAt(result, p)) = Triple(MapAt(result, q))
                => (p[1] = q[1] /\ p[2] = q[2])

\* C4: anchoring applied to its own output returns that output.
AnchoringIdempotent == apc = "twice" => twice = once

\* canonical entities (positions) holding a mapping of the source entity
Holders(ents, src) ==
    {p[1] : p \in {q \in MapPos(ents) : MapAt(ents, q).source_entity = src}}

HighestTally(ents, src, name) ==
    \A i \in DOMAIN ents :
        src_counts(ents, src, Strip(ents[i].name)) <= src_counts(ents, src, name)

\* C5: after anchoring every source entity is held by exactly one canonical
\* entity, one that had the highest tally for it before anchoring.
SingleAnchor ==
    apc = "once" =>
        \A src \in Sources(once) :
            /\ Cardinality(Holders(once, src)) = 1
            /\ \A i \in Holders(once, src) : HighestTally(g, src, Strip(once[i].name))

\* the tenant's current latest persisted version, 0 when it has none
CurrentVersion(tenant) == latest_version(LatestRow(db, tenant))

Stale(p) ==
    /\ sreq[p].expected_version # NoVersion
    /\ sreq[p].expected_version # CurrentVersion(sreq[p].tenant_id)

\* C6: a save that finds its supplied expected_version different from the
\* tenant's latest version leaves the table as it is and answers Conflict with
\* that latest version and its graph; it never creates a row.
StaleSaveRejected ==
    /\ [][\A p \in Savers :
             (spc[p] = "query" /\ spc'[p] # "query" /\ Stale(p)) =>
                 /\ db' = db
                 /\ spc'[p] = "done"
                 /\ sout'[p] =
                       [code |-> 409,
                        latest_version |-> CurrentVersion(sreq[p].tenant_id),
                        canonical_graph |->
                            LatestRow(db, sreq[p].tenant_id).canonical_graph]]_vars
    /\ [](\A p \in Savers :
             sout[p].code = 409 => \A r \in db : r.global_canonical_id # p)

\* a save rejected against a version another save had persisted
StaleSaveRejectedWitness ==
    \E p \in Savers :
        /\ sout[p].code = 409
        /\ sout[p].latest_version > 0
        /\ sout[p].canonical_graph \in Savers

\* C7: a save only adds rows, each with a version above every version the
\* tenant already had, the first being 1.
AppendOnlyIncreasing ==
    [][/\ db \subseteq db'
       /\ \A r \in db' \ db :
             /\ \A o \in db : o.tenant_id = r.tenant_id => o.version < r.version
             /\ (\A o \in db : o.tenant_id # r.tenant_id) => r.version = 1]_vars

\* a tenant with a second version on top of its first
AppendOnlyIncreasingWitness ==
    \E r, o \in db : r.tenant_id = o.tenant_id /\ o.version = 1 /\ r.version = 2

\* C8: no two rows share (tenant_id, version), and of the saves of a tenant
\* that carry the same expected_version at most one creates a row.
UniqueVersions ==
    /\ \A r, o \in db :
          (r.tenant_id = o.tenant_id /\ r.version = o.version) => r = o
    /\ \A p, q \in Savers :
          (/\ p # q
           /\ sreq[p].tenant_id = sreq[q].tenant_id
           /\ sreq[p].expected_version # NoVersion
           /\ sreq[p].expected_version = sreq[q].expected_version)
              => ~(sout[p].code = 200 /\ sout[q].code = 200)

\* two saves with the same expected_version passed the check; one inserted,
\* the insert of the other was refused
UniqueVersionsWitness ==
    \E p, q \in Savers :
        /\ p # q
        /\ sreq[p].tenant_id = sreq[q].tenant_id
        /\ sreq[p].expected_version # NoVersion
        /\ sreq[p].expected_version = sreq[q].expected_version
        /\ sout[p].code = 200
        /\ spc[q] = "done"
        /\ sout[q].code # 409

\* C9: a save that creates no row because the tenant's latest version moved
\* on ends in the Conflict outcome, never in a server failure.
ConflictNeverServerFailure ==
    \A p \in Savers :
        (/\ spc[p] = "done"
         /\ sreq[p].expected_version # NoVersion
         /\ \A r \in db : r.global_canonical_id # p)
            => sout[p].code = 409

\* C10: every relationship of the build output is a candidate of the list that
\* was sent, named by the pair_id of an accepted row of the response.
ClassifierOnlyFilters ==
    bpc = "succeeded" =>
        \A n \in DOMAIN review.suggestions.relationships :
            LET r == review.suggestions.relationships[n]
            IN \E k \in DOMAIN flat_candidates :
                  LET c == flat_candidates[k]
                  IN /\ r.from_entity = c.from_entity
                     /\ r.to_entity = c.to_entity
                     /\ r.join_on = <<[from_field |-> c.from_field,
                                       to_field |-> c.to_field]>>
                     /\ \E i \in DOMAIN rel_items :
                           /\ rel_items[i].accept
                           /\ rel_items[i].pair_id = [t |-> "int", v |-> c.pair_id]

\* an output with a relationship, from a response that also accepted a
\* pair_id outside the list
ClassifierOnlyFiltersWitness ==
    /\ bpc = "succeeded"
    /\ review.suggestions.relationships # <<>>
    /\ Len(flat_candidates) = 1
    /\ \E i \in DOMAIN rel_items :
          /\ rel_items[i].accept
          /\ rel_items[i].pair_id = [t |-> "int", v |-> 1]
          /\ rel_items[i].confidence = 9

\* the threshold the request configures, in tenths (0.6 when none)
ConfiguredThreshold == IF options = NoThreshold THEN 6 ELSE options

\* the relationships a succeeded build stores
OutputRelationships == review.suggestions.relationships

\* the output relationship is the candidate the row names
FromRow(r, it) ==
    \E k \in cand_by_id(flat_candidates, int(it.pair_id)) :
        /\ r.from_entity = flat_candidates[k].from_entity
        /\ r.to_entity = flat_candidates[k].to_entity
        /\ r.join_on = <<[from_field |-> flat_candidates[k].from_field,
                          to_field |-> flat_candidates[k].to_field]>>

\* C11: no relationship of the build output has a confidence below the
\* configured threshold (0.6 when none is configured), and every one of them
\* comes from a row with accept = true carrying that confidence.
ConfidenceFloor ==
    bpc = "succeeded" =>
        \A k \in DOMAIN OutputRelationships :
            LET r == OutputRelationships[k]
            IN /\ r.confidence >= ConfiguredThreshold
               /\ \E i \in DOMAIN rel_items :
                     /\ rel_items[i].accept
                     /\ rel_items[i].confidence = r.confidence
                     /\ FromRow(r, rel_items[i])

\* a build with threshold 0.9 that kept a row and dropped an accepted row of
\* confidence 0.6 naming another candidate
ConfidenceFloorWitness ==
    /\ bpc = "succeeded"
    /\ options = 9
    /\ OutputRelationships # <<>>
    /\ \E i \in DOMAIN rel_items :
          /\ rel_items[i].accept
          /\ rel_items[i].confidence = 6
          /\ cand_by_id(flat_candidates, int(rel_items[i].pair_id)) # {}
          /\ \A k \in DOMAIN OutputRelationships :
                ~FromRow(OutputRelationships[k], rel_items[i])

\* the 4-tuple of an output relationship, compared case-insensitively
OutKey(r) ==
    <<Lower(r.from_entity), Lower(r.join_on[1].from_field),
      Lower(r.to_entity), Lower(r.join_on[1].to_field)>>

\* the 4-tuple of the candidate a row names (<<>> when it names none)
RowKey(it) ==
    LET hit == cand_by_id(flat_candidates, int(it.pair_id))
    IN IF hit = {} THEN <<>>
       ELSE LET c == flat_candidates[CHOOSE k \in hit : TRUE]
            IN <<Lower(c.from_entity), Lower(c.from_field),
                 Lower(c.to_entity), Lower(c.to_field)>>

\* the relationship the classifier loop builds from a row
RowRelationship(it) ==
    LET c == flat_candidates[CHOOSE k \in cand_by_id(flat_candidates, int(it.pair_id)) : TRUE]
    IN [type |-> Lower(IF it.type # "" THEN it.type ELSE c.predicted_type),
        from_entity |-> c.from_entity,
        to_entity |-> c.to_entity,
        join_on |-> <<[from_field |-> c.from_field, to_field |-> c.to_field]>>,
        confidence |-> it.confidence]

NoTwoSameKey ==
    \A k, l \in DOMAIN OutputRelationships :
        OutKey(OutputRelationships[k]) = OutKey(OutputRelationships[l]) => k = l

\* rows with accept = true naming a candidate of the 4-tuple
AcceptedRows(key) ==
    {i \in DOMAIN rel_items : rel_items[i].accept /\ RowKey(rel_items[i]) = key}

\* those of them whose confidence reaches the threshold in force
RemainingRows(key) ==
    {i \in AcceptedRows(key) : rel_items[i].confidence >= rel_conf_threshold(options)}

\* C12 as stated: no two output relationships share a 4-tuple
\* (case-insensitively), and every output relationship is the relationship of
\* the first row with accept = true that names its 4-tuple.
RelationshipDedupAccepted ==
    bpc = "succeeded" =>
        /\ NoTwoSameKey
        /\ \A k \in DOMAIN OutputRelationships :
              LET key == OutKey(OutputRelationships[k])
              IN /\ AcceptedRows(key) # {}
                 /\ OutputRelationships[k] = RowRelationship(rel_items[Min(AcceptedRows(key))])

\* C12 amended: no two output relationships share a 4-tuple
\* (case-insensitively), and every output relationship is the relationship of
\* the first row, among the rows with accept = true and a confidence that
\* reaches the threshold, that names its 4-tuple.
RelationshipDedup ==
    bpc = "succeeded" =>
        /\ NoTwoSameKey
        /\ \A k \in DOMAIN OutputRelationships :
              LET key == OutKey(OutputRelationships[k])
              IN /\ RemainingRows(key) # {}
                 /\ OutputRelationships[k] = RowRelationship(rel_items[Min(RemainingRows(key))])
        /\ \A i \in DOMAIN rel_items :
              LET key == RowKey(rel_items[i])
              IN (key # <<>> /\ RemainingRows(key) # {})
                    => \E k \in DOMAIN OutputRelationships :
                          OutKey(OutputRelationships[k]) = key

\* two remaining rows naming two candidates whose 4-tuples differ only by
\* case, with different confidences: one relationship comes out
RelationshipDedupWitness ==
    /\ bpc = "succeeded"
    /\ Len(OutputRelationships) = 1
    /\ Len(rel_items) = 2
    /\ rel_items[1].pair_id # rel_items[2].pair_id
    /\ rel_items[1].confidence # rel_items[2].confidence
    /\ RowKey(rel_items[1]) # <<>>
    /\ RowKey(rel_items[1]) = RowKey(rel_items[2])
    /\ RemainingRows(RowKey(rel_items[1])) = {1, 2}

\* field names of the model that end in "_id", whatever their case
IdShapedNames == {"order_id", "customer_id", "Customer_ID"}

\* primary key, join key, or identifier-shaped name or semantic type
JoinKeyLike(f) ==
    \/ f.pk
    \/ f.jk
    \/ Lower(f.sem) \in {"identifier", "id", "key"}
    \/ Strip(f.name) \in IdShapedNames

\* the field of the entity at position i that a candidate end names
IsEnd(ents, i, p, entity, field) ==
    /\ Strip(ents[i].name) = entity
    /\ Strip(ents[i].fields[p].name) = field
    /\ JoinKeyLike(ents[i].fields[p])

\* C13: every candidate joins two join-key-like fields of two different
\* canonical entities of the anchored graph and scores at least 0.7.
CandidateAdmission ==
    bpc \in {"llm2", "succeeded"} =>
        \A k \in DOMAIN flat_candidates :
            LET c == flat_candidates[k]
            IN /\ c.score >= MinScore
               /\ c.from_entity # c.to_entity
               /\ \E i, j \in DOMAIN result :
                     /\ i # j
                     /\ \E p \in DOMAIN result[i].fields :
                           IsEnd(result, i, p, c.from_entity, c.from_field)
                     /\ \E q \in DOMAIN result[j].fields :
                           IsEnd(result, j, q, c.to_entity, c.to_field)

\* a candidate list that left out a pair of join-key-like fields of two
\* entities (order_id of one, customer_id of the other)
CandidateAdmissionWitness ==
    /\ bpc = "llm2"
    /\ flat_candidates # <<>>
    /\ \E i, j \in DOMAIN result :
          /\ Strip(result[i].name) # Strip(result[j].name)
          /\ \E p \in DOMAIN result[i].fields, q \in DOMAIN result[j].fields :
                /\ JoinKeyLike(result[i].fields[p])
                /\ JoinKeyLike(result[j].fields[q])
                /\ result[i].fields[p].name = "order_id"
                /\ result[j].fields[q].name = "customer_id"
                /\ \A k \in DOMAIN flat_candidates :
                      {flat_candidates[k].from_field, flat_candidates[k].to_field}
                          # {"order_id", "customer_id"}

\* every candidate the two nested loops admit, before the caps
AdmittedCandidates ==
    LET ffj == fields_for_join(result)
    IN Admit(ffj, PairsFrom(Len(ffj)), 0)

\* the unordered pair of canonical entities a candidate joins
EntityPair(c) == {c.from_entity, c.to_entity}

\* C14: the candidate list has at most 5 candidates per unordered pair of
\* entities and at most 300 in all, is ordered by non-increasing score, holds
\* admitted candidates only, and no dropped candidate of an entity pair scores
\* strictly higher than a kept one of that pair.
BoundedCandidateList ==
    bpc \in {"llm2", "succeeded", "failed"} =>
        LET adm == AdmittedCandidates
            admitted == {adm[a] : a \in DOMAIN adm}
            kept == {flat_candidates[k] : k \in DOMAIN flat_candidates}
            pairs == {EntityPair(c) : c \in admitted}
        IN /\ Len(flat_candidates) <= 300
           /\ Cardinality(kept) = Len(flat_candidates)
           /\ kept \subseteq admitted
           /\ \A k \in DOMAIN flat_candidates :
                 k > 1 => flat_candidates[k - 1].score >= flat_candidates[k].score
           /\ \A pr \in pairs :
                 LET keptOf == {c \in kept : EntityPair(c) = pr}
                     droppedOf == {c \in admitted \ kept : EntityPair(c) = pr}
                 IN /\ Cardinality(keptOf) <= 5
                    /\ \A c \in keptOf, d \in droppedOf : c.score >= d.score

\* a list cut to 300 by the global cap, with an entity pair cut to 5 by the
\* other cap
BoundedCandidateListWitness ==
    /\ bpc = "llm2"
    /\ Len(flat_candidates) = 300
    /\ LET adm == AdmittedCandidates
           admitted == {adm[a] : a \in DOMAIN adm}
           kept == {flat_candidates[k] : k \in DOMAIN flat_candidates}
       IN /\ Cardinality(admitted) > 330
          /\ \E d \in admitted \ kept :
                Cardinality({c \in kept : EntityPair(c) = EntityPair(d)}) = 5

\* the manifest of the two-table schema: orders(order_id, customer_id) and
\* customers(customer_id), all of connector pg1
TwoTableManifest ==
    /\ Len(manifest) = 3
    /\ Triple(manifest[2]) = <<"pg1", "orders", "customer_id">>
    /\ Triple(manifest[3]) = <<"pg1", "customers", "customer_id">>

\* the entity Orders maps orders.customer_id under its field customer_id
OrdersCustomerIdMapped(ents) ==
    \E i \in DOMAIN ents :
        /\ Strip(ents[i].name) = "Orders"
        /\ \E j \in DOMAIN ents[i].fields :
              /\ ents[i].fields[j].name = "customer_id"
              /\ \E k \in DOMAIN ents[i].fields[j].mappings :
                    Triple(ents[i].fields[j].mappings[k]) = Triple(manifest[2])

\* C15: when the clustering response drops customers.customer_id (mapping
\* id 2) while Orders.customer_id is mapped, the field ends in the fallback
\* field of customers in Unassigned with confidence 0.5, and the candidate
\* list links that field to Orders.customer_id.
DroppedIdStaysLinkable ==
    (/\ bpc \in {"llm2", "succeeded"}
     /\ TwoTableManifest
     /\ manifest[3].mid \notin covered_ids
     /\ OrdersCustomerIdMapped(result))
        => /\ InFallback(result, manifest[3])
           /\ \E k \in DOMAIN flat_candidates :
                 {<<flat_candidates[k].from_entity, flat_candidates[k].from_field>>,
                  <<flat_candidates[k].to_entity, flat_candidates[k].to_field>>}
                    = {<<"Unassigned", "customers (raw)">>, <<"Orders", "customer_id">>}

CallOver == lpc \in {"returned", "raised"}

\* C17 helper: what holds of one review_schema call in every state
RetryState ==
    /\ attempts_made <= Max({retry_max + 1, 0})
    /\ Len(errors) <= attempts_made
    /\ Len(slept) = Max({attempts_made - 1, 0})
    /\ \A k \in DOMAIN slept : slept[k] = backoff_base * Pow2(k - 1)
    /\ lpc \in {"attempt", "repair"} => Len(errors) = attempts_made - 1
    /\ lpc = "returned" /\ attempts_made > 0 =>
          /\ Len(errors) = attempts_made - 1
          /\ llm_out = _best_effort_parse(llm_text)
    /\ lpc = "raised" =>
          /\ attempts_made = retry_max + 1
          /\ Len(errors) = attempts_made
          /\ llm_out = Raised(errors[Len(errors)])

\* C17: one review_schema call makes at most retry_max + 1 attempts, sleeps
\* backoff_base * 2^k after the k-th failed attempt (k from 0) before the next
\* one, returns the result of the first attempt that succeeds and makes no
\* attempt after it, raises the error of the last attempt when that one fails
\* too, and always terminates.
BoundedRetry ==
    /\ []RetryState
    /\ [][CallOver => UNCHANGED llmVars]_vars
    /\ <>CallOver

\* C17 witness: with the default retry_max of 2, two attempts failed, the call
\* slept backoff_base and then twice backoff_base, and the third attempt
\* returned its result
BoundedRetryWitness ==
    /\ lpc = "returned"
    /\ retry_max = 2
    /\ backoff_base = 5
    /\ attempts_made = 3
    /\ slept = <<5, 10>>
    /\ Len(errors) = 2
    /\ llm_out = JDict("P")

\* C18 helper: the three layers of the parse all fail on the text
AllLayersFail(text) ==
    /\ json_loads(text) = Fail
    /\ json_loads(sanitize(text)) = Fail
    /\ \/ balanced_substring(sanitize(text)) = <<>>
       \/ json_loads(balanced_substring(sanitize(text))) = Fail

\* C18 helper: the value returned for the text is that of the first layer
\* that succeeds, and the empty structure when none does
FirstSuccess(text, v) ==
    IF json_loads(text) # Fail THEN v = json_loads(text)
    ELSE IF json_loads(sanitize(text)) # Fail THEN v = json_loads(sanitize(text))
    ELSE IF AllLayersFail(text) THEN v = EmptyStructure
    ELSE v = json_loads(balanced_substring(sanitize(text)))

\* C18 helper: review_schema returned the empty structure
GaveUp == lpc = "returned" /\ llm_out = EmptyStructure

\* C18 helper: the graph is the one entity Unassigned holding every manifest
\* entry
AllUnassigned(ents) ==
    /\ Len(ents) = 1
    /\ ents[1].name = "Unassigned"
    /\ \A k \in DOMAIN manifest : InFallback(ents, manifest[k])

\* C18: the layered parse returns the value of the first of strict parse,
\* parse after sanitizing and parse of the balanced-object substring that
\* succeeds, and the empty structure, without raising, when all three fail;
\* a build whose clustering call returned the empty structure never fails,
\* asks for no classification, and succeeds with every manifest entry under
\* the one entity Unassigned.
GracefulParse ==
    /\ lpc = "returned" /\ attempts_made > 0 => FirstSuccess(llm_text, llm_out)
    /\ GaveUp =>
          /\ bpc \in {"llm1", "expanded", "repaired", "anchored", "succeeded"}
          /\ bpc \in {"repaired", "anchored", "succeeded"} => AllUnassigned(result)
          /\ bpc = "succeeded" =>
                /\ review.status = "succeeded"
                /\ AllUnassigned(review.suggestions.entities)
                /\ review.suggestions.relationships = <<>>

\* C18 witness: the answer was cut off after the members of its object, no
\* layer could parse it, and the build succeeded with everything under
\* Unassigned
GracefulParseWitness ==
    /\ bpc = "succeeded"
    /\ provider = "anthropic"
    /\ llm_text = <<"{", "P">>
    /\ AllLayersFail(llm_text)
    /\ llm_out = EmptyStructure
    /\ review.status = "succeeded"
    /\ AllUnassigned(review.suggestions.entities)

\* C19 helper: source fields the raw schema of the request yields
DiscoveredFields ==
    BuildManifest(InputEntities(extract_entities(raw_schema)), 0)

\* C19: a request whose schemas yield zero source fields is rejected before
\* any LLM call is made, and no review record and no graph are created.
EmptyManifestRejected ==
    bpc # "raw" /\ ~GetNameRaises(raw_schema) /\ DiscoveredFields = <<>> =>
        /\ bpc = "rejected"
        /\ lpc = "idle"
        /\ attempts_made = 0
        /\ llm_out = NoValue
        /\ review = NoReview
        /\ result = <<>>

\* C19 witness: a tables document with two tables that have no columns was
\* rejected
EmptyManifestRejectedWitness ==
    /\ bpc = "rejected"
    /\ raw_schema.key = "tables"
    /\ Len(raw_schema.items) = 2
    /\ Len(input_entities) = 2
    /\ manifest = <<>>
    /\ review = NoReview

\* C20 helper: the document has one of the four shapes: tables, entities and
\* the tables of a schema carry a name, a relation a name or a table
FourShapes(raw) ==
    /\ raw.key \in {"tables", "schemas", "relations", "entities"}
    /\ \A k \in DOMAIN raw.items :
          \/ raw.items[k].name # NoKey
          \/ raw.key = "relations" /\ raw.items[k].table # NoKey /\ raw.items[k].schema = NoKey

\* C20 helper: the bag of <<table, column>> pairs the document declares
DeclaredPairs(raw) ==
    LET pos == {<<k, j>> \in (DOMAIN raw.items) \X (1..2) :
                   j \in DOMAIN raw.items[k].columns}
        pair(p) == << IF raw.items[p[1]].name # NoKey THEN raw.items[p[1]].name
                      ELSE raw.items[p[1]].table,
                      raw.items[p[1]].columns[p[2]].name >>
    IN [x \in {pair(p) : p \in pos} |-> Cardinality({p \in pos : pair(p) = x})]

\* C20 helper: the bag of <<source_entity, source_field>> pairs of the manifest
ManifestPairs ==
    LET pair(k) == <<manifest[k].source_entity, manifest[k].source_field>>
    IN [x \in {pair(k) : k \in DOMAIN manifest} |->
           Cardinality({k \in DOMAIN manifest : pair(k) = x})]

\* C20 as stated: for a raw schema document of each of the four shapes the
\* manifest built by the request holds one entry per declared column, with the
\* table or entity name as source_entity and the column name as source_field.
AllShapesAccepted ==
    bpc # "raw" /\ FourShapes(raw_schema) => ManifestPairs = DeclaredPairs(raw_schema)

\* the one shape the code reads as the claim says: an entities document with
\* {name} fields
EntitiesShapeAccepted ==
    /\ bpc = "llm1"
    /\ raw_schema.key = "entities"
    /\ Len(manifest) = 3
    /\ ManifestPairs = DeclaredPairs(raw_schema)

\* C23 helper: the relationship type enum
RelationshipTypes == {"one_to_one", "one_to_many", "many_to_one", "many_to_many", "unknown"}

\* C23 as stated: every relationship of the graph a build stores has a type
\* of the enum, for every classifier response.
RelationshipTypeDomain ==
    bpc = "succeeded" =>
        \A n \in DOMAIN review.suggestions.relationships :
            review.suggestions.relationships[n].type \in RelationshipTypes

\* C24 as stated: in the graph a build stores, after repair and anchoring, no
\* two canonical entities have the same name compared case-insensitively.
EntityNamesUnique ==
    bpc = "succeeded" =>
        \A i, j \in DOMAIN review.suggestions.entities :
            Lower(review.suggestions.entities[i].name)
                = Lower(review.suggestions.entities[j].name) => i = j

\* C28 as stated: a classifier row with accept = true, a pair_id of the
\* candidate list and a confidence at or above the configured threshold (0.6
\* when none is configured) is not discarded: a relationship with its 4-tuple
\* is in the output.
OnlyStatedDiscards ==
    bpc = "succeeded" =>
        \A i \in DOMAIN rel_items :
            /\ rel_items[i].accept
            /\ cand_by_id(flat_candidates, int(rel_items[i].pair_id)) # {}
            /\ rel_items[i].confidence >= ConfiguredThreshold
            => \E k \in DOMAIN OutputRelationships :
                  OutKey(OutputRelationships[k]) = RowKey(rel_items[i])

\* C30 helper: request p omitted expected_version
Omitted(p) == spc[p] # "off" /\ spc[p] # "idle" /\ sreq[p].expected_version = NoVersion

\* C30: a save that omits expected_version never ends in the 409 conflict,
\* whatever the latest version of its tenant is; the step after its query is
\* always the insert, and when no other save of the tenant commits between its
\* query and its commit it creates the row of version latest + 1 (1 for a
\* tenant with no row).
OmittedVersionUnchecked ==
    /\ [](\A p \in Savers : Omitted(p) => sout[p].code # 409)
    /\ [][\A p \in Savers :
             Omitted(p) /\ spc[p] = "query" /\ spc'[p] # "query" =>
                 spc'[p] = "insert" /\ db' = db]_vars
    /\ [][\A p \in Savers :
             /\ Omitted(p)
             /\ spc[p] = "insert"
             /\ spc'[p] = "done"
             /\ LatestRow(db, sreq[p].tenant_id) = latest[p]
             => /\ sout'[p].code = 200
                /\ sout'[p].version = latest_version(latest[p]) + 1
                /\ db' = db \cup {[tenant_id |-> sreq[p].tenant_id,
                                   version |-> latest_version(latest[p]) + 1,
                                   canonical_graph |-> sreq[p].user_edits,
                                   global_canonical_id |-> p]}]_vars

\* C30 witness: a save without expected_version created version 2 of a tenant
\* whose latest version was 1
OmittedVersionUncheckedWitness ==
    \E p \in Savers :
        /\ Omitted(p)
        /\ spc[p] = "done"
        /\ latest[p].version = 1
        /\ sout[p].code = 200
        /\ sout[p].version = 2

\* C29 helper: the multiset of mapping rows of a graph
MappingBag(ents) ==
    [x \in {MapAt(ents, p) : p \in MapPos(ents)} |->
        Cardinality({p \in MapPos(ents) : MapAt(ents, p) = x})]

\* C29 helper: every entity has a field and every field a mapping
NothingEmpty(ents) ==
    \A i \in DOMAIN ents :
        /\ ents[i].fields # <<>>
        /\ \A j \in DOMAIN ents[i].fields : ents[i].fields[j].mappings # <<>>

\* C29: anchor_and_split_cross_entity_fields returns a graph with the same
\* multiset of mappings (connector_id, source_entity, source_field,
\* confidence) as its input, hence the same number of mapping rows, and leaves
\* no entity without fields and no field without mappings.
AnchoringConservesMappings ==
    [][bpc = "repaired" /\ bpc' = "anchored" =>
          /\ MappingBag(result') = MappingBag(result)
          /\ Cardinality(MapPos(result')) = Cardinality(MapPos(result))
          /\ NothingEmpty(result')]_vars

\* C29 witness: anchoring moved every row the repair step had put under
\* Unassigned (confidence 0.5) to the anchor entity of its source entity and
\* dropped the emptied Unassigned entity, with as many rows after as before
AnchoringConservesMappingsWitness ==
    /\ bpc = "anchored"
    /\ covered_ids # ManifestIds(manifest)
    /\ Cardinality(MapPos(result)) = Len(manifest)
    /\ \A i \in DOMAIN result : result[i].name # "Unassigned"
    /\ \E p \in MapPos(result) : MapAt(result, p).confidence = 5

\* C26 helper: the other tenants keep their thread lists in a step
OtherListsKept(tenant_id) ==
    \A other \in Tenants \ {tenant_id} :
        threads_in(thread_histories', other) = list_threads(other)

\* C26: thread lifecycle.  No thread is listed before the first call; a
\* create_thread call of a tenant adds the id it returns to that tenant's list
\* and nothing else; a delete_thread call returns True exactly when the thread
\* was listed for the tenant, then removes that id only, and otherwise changes
\* nothing; either call leaves the lists of the other tenants as they were.
\* So a tenant's list holds an id exactly when it was created for the tenant
\* and not deleted since.
ThreadLifecycle ==
    /\ [](tcall = NoCall => \A tenant_id \in Tenants : list_threads(tenant_id) = {})
    /\ [][tcall'.op = "create_thread" =>
             /\ tcall'.ret \in 1..MaxThreads
             /\ threads_in(thread_histories', tcall'.tenant_id) =
                    list_threads(tcall'.tenant_id) \cup {tcall'.ret}
             /\ OtherListsKept(tcall'.tenant_id)]_vars
    /\ [][tcall'.op = "delete_thread" =>
             LET listed == list_threads(tcall'.tenant_id)
                 named == IF tcall'.thread_id = NoThread
                          THEN DefaultThread ELSE tcall'.thread_id
             IN  /\ tcall'.ret = (named \in listed)
                 /\ threads_in(thread_histories', tcall'.tenant_id) = listed \ {named}
                 /\ ~tcall'.ret => thread_histories' = thread_histories
                 /\ OtherListsKept(tcall'.tenant_id)]_vars

ThreadLifecycleWitness ==
    /\ tcall.op = "delete_thread"
    /\ tcall.tenant_id = "t1"
    /\ tcall.thread_id = 2
    /\ tcall.ret = TRUE
    /\ list_threads("t1") = {1}
    /\ list_threads("t2") = {1, 2}

\* C27 helper: kept is the last Len(kept) messages of before, in their order
IsMostRecent(kept, before) ==
    /\ Len(kept) <= Len(before)
    /\ \A i \in 1..Len(kept) : kept[i] = before[Len(before) - Len(kept) + i]

\* C27 helper: the stored history of a session, empty when it has none
Stored(session_id) ==
    IF session_id \in DOMAIN thread_histories THEN thread_histories[session_id] ELSE <<>>

\* C27: history window.  When _history_for_session returns for a session
\* whose max_turns is greater than 0, the stored history of the session holds
\* at most 2 * max_turns messages, they are the most recent messages it held
\* before the call in their original order (all of them when they were no
\* more than 2 * max_turns), the call returns that history, and the history
\* of every other session is as it was.
HistoryWindow ==
    [][tcall'.op = "_history_for_session" =>
          LET session_id == <<tcall'.tenant_id, tcall'.thread_id>>
              max_turns == max_turns_of(session_id)
              before == Stored(session_id)
              kept == thread_histories'[session_id]
          IN  /\ session_id \in DOMAIN thread_histories'
              /\ max_turns > 0 =>
                    /\ Len(kept) <= 2 * max_turns
                    /\ IsMostRecent(kept, before)
                    /\ Len(before) <= 2 * max_turns => kept = before
                    /\ Len(before) > 2 * max_turns => Len(kept) = 2 * max_turns
                    /\ tcall'.ret = kept
              /\ \A other \in (DOMAIN thread_histories \cup DOMAIN thread_histories')
                                 \ {session_id} :
                    /\ other \in DOMAIN thread_histories
                    /\ other \in DOMAIN thread_histories'
                    /\ thread_histories'[other] = thread_histories[other]]_vars

HistoryWindowWitness ==
    /\ tcall.op = "_history_for_session"
    /\ tcall.tenant_id = "t2"
    /\ max_turns_of(<<"t2", 1>>) = 2
    /\ tcall.ret = <<2, 3, 4, 5>>
    /\ thread_histories[<<"t2", 1>>] = <<2, 3, 4, 5>>
    /\ _session_key("t1", NoThread) \in DOMAIN thread_histories
    /\ Len(thread_histories[_session_key("t1", NoThread)]) = 3

\* C25 helper: the positions of an event name in the events yielded so far
PositionsOf(name) == {i \in DOMAIN events : events[i] = name}

\* C25 helper: the position of the first 'error' or 'done', or one past the end
ClosingFrom ==
    LET closing == PositionsOf("error") \cup PositionsOf("done")
    IN  IF closing = {} THEN Len(events) + 1
        ELSE CHOOSE i \in closing : \A j \in closing : i <= j

\* C25: chat stream event order.  Whatever a run has yielded starts with
\* 'ready', which occurs once; 'done' occurs only as the last event of a
\* closed run, and a closed run has exactly one; when the underlying stream
\* raised, 'error' is the event right before 'done' (the last one while
\* 'done' is still to come); when it ended normally there is no 'error';
\* token, tool_start, tool_end and final events lie after 'ready' and before
\* the first 'error' or 'done'.
StreamOrder ==
    /\ cpc = "start" <=> events = <<>>
    /\ events # <<>> => PositionsOf("ready") = {1}
    /\ PositionsOf("done") = IF cpc = "closed" THEN {Len(events)} ELSE {}
    /\ cpc \in {"finally", "closed"} /\ stream_end = "raised" =>
           PositionsOf("error") = {IF cpc = "closed" THEN Len(events) - 1 ELSE Len(events)}
    /\ stream_end = "ended" => PositionsOf("error") = {}
    /\ \A i \in DOMAIN events :
           events[i] \in {"token", "tool_start", "tool_end", "final"} =>
               1 < i /\ i < ClosingFrom

StreamOrderWitness ==
    /\ cpc = "closed"
    /\ stream_end = "raised"
    /\ events = <<"ready", "token", "tool_start", "tool_end", "error", "done">>

\* C25 second witness: a run whose stream ended normally
StreamOrderNormalWitness ==
    /\ cpc = "closed"
    /\ stream_end = "ended"
    /\ events = <<"ready", "token", "tool_end", "final", "done">>

\* C21 helper: the name of a list element, empty when it has none
NameOf(x) == IF x.kind = "dict" THEN x.name ELSE ""

\* C21 helper: the fields of an entity, none when it is not a dict
FieldsOf(e) == IF e.kind = "dict" THEN e.fields ELSE <<>>

\* C21 helper: two names that differ at most in case and outer blanks
SameName(a, b) == Lower(Strip(a)) = Lower(Strip(b))

\* C21 helper: the entities of a graph a relationship end names
Named(graph, entity_name) ==
    {i \in DOMAIN graph.entities :
        Lower(NameOf(graph.entities[i])) = Lower(entity_name)}

\* C21 helper: a field reference names a field of every entity the end names
FieldExists(graph, entity_name, field_name) ==
    /\ Named(graph, entity_name) # {}
    /\ \A i \in Named(graph, entity_name) :
          \E j \in DOMAIN FieldsOf(graph.entities[i]) :
             Lower(FieldsOf(graph.entities[i])[j].name) = Lower(field_name)

\* C21 helper: the field references a relationship carries, as
\* <<side, field>> with side "from" or "to"
References(r) ==
    (IF r.from_field # "" THEN {<<"from", r.from_field>>} ELSE {})
    \cup (IF r.to_field # "" THEN {<<"to", r.to_field>>} ELSE {})
    \cup {<<"from", r.join_on[n].from_field>> : n \in DOMAIN r.join_on}
    \cup {<<"to", r.join_on[n].to_field>> : n \in DOMAIN r.join_on}

\* C21 helper: every reference of a relationship exists in the graph
ReferencesExist(graph, r) ==
    /\ Named(graph, r.from_entity) # {}
    /\ Named(graph, r.to_entity) # {}
    /\ \A ref \in References(r) :
          FieldExists(graph, IF ref[1] = "from" THEN r.from_entity ELSE r.to_entity,
                      ref[2])

\* C21 helper: at least one of the structural checks fails
StructuralFailure(graph) ==
    \/ \E i \in DOMAIN graph.entities :
          LET e == graph.entities[i]
          IN  \/ Strip(NameOf(e)) = ""
              \/ \E h \in DOMAIN graph.entities :
                    h # i /\ SameName(NameOf(e), NameOf(graph.entities[h]))
              \/ \E j \in DOMAIN FieldsOf(e) :
                    \/ Strip(FieldsOf(e)[j].name) = ""
                    \/ \E h \in DOMAIN FieldsOf(e) :
                          h # j /\ SameName(FieldsOf(e)[j].name, FieldsOf(e)[h].name)
                    \/ /\ FieldsOf(e)[j].pii # ""
                       /\ Lower(FieldsOf(e)[j].pii) \notin {"none", "low", "medium", "high"}
    \/ \E k \in DOMAIN graph.relationships :
          LET r == graph.relationships[k]
          IN  \/ r.type # "" /\ Lower(r.type) \notin RelationshipTypes
              \/ ~ReferencesExist(graph, r)

\* C21: validation reports instead of raising.  A validate request never ends
\* in an exception; its response has ok = false with a non-empty list of
\* errors exactly when a structural check fails on the graph, and ok = true
\* otherwise; each error has a path and a message; the store is not written.
ValidateReports ==
    vpc \notin {"off", "start"} =>
        /\ vpc = "returned"
        /\ ~vout.raised
        /\ vout.ok <=> ~StructuralFailure(vgraph)
        /\ vout.ok <=> vout.errors = <<>>
        /\ \A n \in DOMAIN vout.errors :
              vout.errors[n].path # <<>> /\ vout.errors[n].message # ""
        /\ db = {}

\* C21: a graph whose entity list holds an element that is not a dict ends
\* the request in an exception
NonDictEntityRaises ==
    /\ vpc = "raised"
    /\ vout.raised
    /\ Len(vgraph.entities) = 1
    /\ vgraph.entities[1] = NonDictEntity
    /\ vgraph.relationships = <<>>

\* C22: validated relationship references exist.  A response with ok = true
\* is given only when, for every relationship of the graph, from_entity and
\* to_entity name entities of the graph and every field reference it carries,
\* in the single from_field / to_field form and in every pair of join_on,
\* names an existing field of that entity.
ValidatedReferencesExist ==
    vpc = "returned" /\ vout.ok =>
        \A k \in DOMAIN vgraph.relationships :
            ReferencesExist(vgraph, vgraph.relationships[k])

\* C22: the relationship whose single form exists and whose join_on pair
\* names no field is answered with ok = true
UncheckedJoinOnAccepted ==
    /\ vpc = "returned"
    /\ vout.ok
    /\ Len(vgraph.relationships) = 1
    /\ vgraph.relationships[1].from_field = "customer_id"
    /\ vgraph.relationships[1].join_on = <<Pair("nope", "nope")>>

====
